---- MODULE Spec2Model ----
(***************************************************************************)
(* The record-keeping backend of note_taker: the Result envelope, the      *)
(* generic SQLite repository (get_by_id, get_all, create, update, delete)  *)
(* bound to the four tables of database.py, and the session-note service's *)
(* validated creation.                                                     *)
(*                                                                         *)
(* A table is the sequence of its rows in rowid order.  Python's None and  *)
(* SQL NULL are the empty tuple; the value v of an Optional field or a     *)
(* nullable column is the one-element tuple <<v>>.  Fields that are not    *)
(* Optional hold their value directly.                                     *)
(***************************************************************************)
EXTENDS Integers, Sequences, FiniteSets, TLC

VARIABLES
    db,      \* table name -> sequence of rows (the SQLite file)
    issued,  \* table name -> the ids returned by successful create calls, in order
    last,    \* the call being answered: its operation, arguments, statements
             \* and Result; NoCall once the Result has been handed to the caller
    _instances,  \* SingletonMeta._instances: service class -> its instance
    objects,     \* the service objects constructed so far, in order; an
                 \* instance is known by its place in this sequence
    threads      \* caller -> the service call it is inside: the operation,
                 \* its arguments, the statement it runs next and its locals

services == <<_instances, objects>>

vars == <<db, issued, last, _instances, objects, threads>>

NoCall == [op |-> "none"]

\* The callers that can be inside a service call at the same time.
Threads == {1, 2}

Idle == [pc |-> "idle"]

NoThreads == [c \in Threads |-> Idle]

None == <<>>
Some(v) == <<v>>

Tables == {"bcbas", "patients", "clinics", "session_notes"}

----------------------------------------------------------------------------
(* Schema and models *)

Columns(t) ==
    CASE t = "bcbas" -> {"id", "name"}
      [] t = "patients" -> {"id", "first_name", "last_name", "DOB", "ICD", "address"}
      [] t = "clinics" -> {"id", "name", "address"}
      [] t = "session_notes" ->
            {"id", "bcba", "patient", "clinic", "apt_date", "duration", "notes"}

\* The Optional fields of each model class; they are the nullable columns.
OptionalFields(t) ==
    CASE t = "bcbas" -> {"id"}
      [] t = "patients" -> {"id", "ICD", "address"}
      [] t = "clinics" -> {"id", "address"}
      [] t = "session_notes" -> {"id", "clinic", "duration", "notes"}

\* A datetime value: its wall-clock reading and its tzinfo.
DateTime(wall, tzinfo) == [wall |-> wall, tzinfo |-> tzinfo]

----------------------------------------------------------------------------
(* utils/result.py *)

Result(success, data, error, status_code) ==
    [success |-> success,
     data |-> IF success THEN data ELSE None,
     error |-> IF ~success THEN error ELSE None,
     status_code |-> IF status_code # None /\ status_code[1] # 0
                     THEN status_code[1]
                     ELSE (IF success THEN 200 ELSE 500)]

success_result(data) == Result(TRUE, data, None, None)

error_result(error, status_code) == Result(FALSE, None, error, Some(status_code))

\* The status code error_result takes when the caller passes none.
error_result_status_code == 400

\* to_dict leaving the payload key out when there is no payload.
to_dict_skips_none(self) ==
    IF self.success /\ self.data # None
    THEN [success |-> self.success, status_code |-> self.status_code,
          data |-> self.data]
    ELSE IF self.success
    THEN [success |-> self.success, status_code |-> self.status_code]
    ELSE [success |-> self.success, status_code |-> self.status_code,
          error |-> self.error]

to_dict(self) ==
    IF self.success
    THEN [success |-> self.success, status_code |-> self.status_code,
          data |-> self.data]
    ELSE [success |-> self.success, status_code |-> self.status_code,
          error |-> self.error]

\* to_response keeps the payload or the message and nothing else.
to_response(self) ==
    IF self.success THEN [data |-> self.data] ELSE [error |-> self.error]

----------------------------------------------------------------------------
(* sqlite_repository.py *)

\* The SQLite DateTime type writes the wall-clock fields of a datetime and
\* reads them back as a naive datetime; an id that reaches a statement is
\* written as the integer it holds; every other type is stored as is.
bind_param(t, f, v) ==
    IF f = "id" THEN v[1]
    ELSE IF t = "session_notes" /\ f = "apt_date" THEN v.wall
    ELSE v

result_value(t, f, s) ==
    IF t = "session_notes" /\ f = "apt_date" THEN DateTime(s, None) ELSE s

_row_to_model(t, row) ==
    [f \in DOMAIN row |->
        IF f = "id" THEN Some(row.id) ELSE result_value(t, f, row[f])]

\* _model_to_dict without exclude={'id'}: a model's id goes into the statement.
_model_to_dict_keeps_id(t, model) ==
    LET keep == {f \in DOMAIN model :
                    f \in OptionalFields(t) \cup {"id"} => model[f] # None}
    IN [f \in keep |-> model[f]]

\* _model_to_dict without exclude_none: unset fields are written as NULL.
_model_to_dict_with_none(t, model) ==
    [f \in (DOMAIN model) \ {"id"} |-> model[f]]

\* _model_to_dict dropping every falsy value (0, "") along with None.
_model_to_dict_truthy(t, model) ==
    LET falsy(f) == \/ model[f] = None
                    \/ IF f \in {"clinic", "duration"} THEN model[f][1] = 0
                       ELSE model[f][1] = ""
        keep == {f \in (DOMAIN model) \ {"id"} :
                    f \in OptionalFields(t) => ~falsy(f)}
    IN [f \in keep |-> model[f]]

\* model_dump(exclude={'id'}, exclude_none=True); only an Optional field can
\* hold None.
_model_to_dict(t, model) ==
    LET keep == {f \in (DOMAIN model) \ {"id"} :
                    f \in OptionalFields(t) => model[f] # None}
    IN [f \in keep |-> model[f]]

SetMax(S) == CHOOSE m \in S : \A x \in S : x <= m

\* The rowid SQLite gives an INTEGER PRIMARY KEY row inserted without an id:
\* one more than the largest rowid in the table, 1 for an empty table.
next_rowid(rows) ==
    IF rows = <<>> THEN 1
    ELSE SetMax({rows[i].id : i \in DOMAIN rows}) + 1

select_by_id(rows, record_id) == SelectSeq(rows, LAMBDA r : r.id = record_id)

\* get_by_id reporting a missing row with error_result's default status.
get_by_id_default_status(d, t, record_id) ==
    LET result == select_by_id(d[t], record_id)
    IN IF result = <<>>
       THEN error_result(<<"Record with ID ", record_id, " not found">>, 400)
       ELSE success_result(_row_to_model(t, result[1]))

\* get_by_id without its "if not result" branch: _row_to_model(None) is None.
get_by_id_found_any(d, t, record_id) ==
    LET result == select_by_id(d[t], record_id)
    IN IF result = <<>>
       THEN success_result(None)
       ELSE success_result(_row_to_model(t, result[1]))

get_by_id(d, t, record_id) ==
    LET result == select_by_id(d[t], record_id)
    IN IF result = <<>>
       THEN error_result(<<"Record with ID ", record_id, " not found">>, 404)
       ELSE success_result(_row_to_model(t, result[1]))

\* get_all over a statement ordered by descending id.
get_all_newest_first(d, t) ==
    success_result([i \in DOMAIN d[t] |->
                       _row_to_model(t, d[t][Len(d[t]) + 1 - i])])

\* A SELECT with no ORDER BY walks the table in rowid order.
get_all(d, t) ==
    success_result([i \in DOMAIN d[t] |-> _row_to_model(t, d[t][i])])

\* create numbering its row itself, one more than the count of rows, in a
\* table whose id column is no key.
create_counts_rows(d, t, model) ==
    LET data == _model_to_dict(t, model)
        record_id == Len(d[t]) + 1
        row == [f \in Columns(t) |->
                   IF f = "id" THEN record_id
                   ELSE IF f \in DOMAIN data THEN bind_param(t, f, data[f])
                   ELSE None]
    IN [result |-> success_result(record_id),
        db |-> [d EXCEPT ![t] = Append(@, row)],
        stmts |-> << <<"insert", t, record_id>> >>]

\* create returning the statement's row count instead of the inserted key.
create_returns_rowcount(d, t, model) ==
    LET data == _model_to_dict(t, model)
        record_id == IF "id" \in DOMAIN data THEN bind_param(t, "id", data["id"])
                     ELSE next_rowid(d[t])
        row == [f \in Columns(t) |->
                   IF f = "id" THEN record_id
                   ELSE IF f \in DOMAIN data THEN bind_param(t, f, data[f])
                   ELSE None]
    IN [result |-> success_result(1),
        db |-> [d EXCEPT ![t] = Append(@, row)],
        stmts |-> << <<"insert", t, record_id>> >>]

\* Each write operation yields its Result, the database after it and the
\* statements it executed.  An INSERT takes its key from the statement when
\* the statement names one (and fails when a row already holds that key) and
\* from SQLite otherwise.
create(d, t, model) ==
    LET data == _model_to_dict(t, model)
        record_id == IF "id" \in DOMAIN data THEN bind_param(t, "id", data["id"])
                     ELSE next_rowid(d[t])
        row == [f \in Columns(t) |->
                   IF f = "id" THEN record_id
                   ELSE IF f \in DOMAIN data THEN bind_param(t, f, data[f])
                   ELSE None]
    IN IF select_by_id(d[t], record_id) # <<>>
       THEN [result |-> error_result(<<"Error creating record: ", "UNIQUE constraint failed">>, 500),
             db |-> d,
             stmts |-> << <<"insert", t, record_id>> >>]
       ELSE [result |-> success_result(record_id),
             db |-> [d EXCEPT ![t] = Append(@, row)],
             stmts |-> << <<"insert", t, record_id>> >>]

\* update that sets the columns the record leaves out to NULL.
update_nulls_missing(d, t, record_id, model) ==
    LET check_result == get_by_id(d, t, record_id)
        data == _model_to_dict(t, model)
        write(row) == [f \in DOMAIN row |->
                          IF f \in DOMAIN data THEN bind_param(t, f, data[f])
                          ELSE IF f = "id" THEN row[f]
                          ELSE None]
        rows == [i \in DOMAIN d[t] |->
                    IF d[t][i].id = record_id THEN write(d[t][i]) ELSE d[t][i]]
    IN IF ~check_result.success
       THEN [result |-> check_result, db |-> d,
             stmts |-> << <<"select", t, record_id>> >>]
       ELSE [result |-> success_result(None),
             db |-> [d EXCEPT ![t] = rows],
             stmts |-> << <<"select", t, record_id>>, <<"update", t, record_id>> >>]

\* update without its existence check.
update_unchecked(d, t, record_id, model) ==
    LET data == _model_to_dict(t, model)
        write(row) == [f \in DOMAIN row |->
                          IF f \in DOMAIN data THEN bind_param(t, f, data[f])
                          ELSE row[f]]
        rows == [i \in DOMAIN d[t] |->
                    IF d[t][i].id = record_id THEN write(d[t][i]) ELSE d[t][i]]
    IN [result |-> success_result(None),
        db |-> [d EXCEPT ![t] = rows],
        stmts |-> << <<"update", t, record_id>> >>]

\* update whose statement has no WHERE clause.
update_every_row(d, t, record_id, model) ==
    LET check_result == get_by_id(d, t, record_id)
        data == _model_to_dict(t, model)
        write(row) == [f \in DOMAIN row |->
                          IF f \in DOMAIN data THEN bind_param(t, f, data[f])
                          ELSE row[f]]
        rows == [i \in DOMAIN d[t] |-> write(d[t][i])]
    IN IF ~check_result.success
       THEN [result |-> check_result, db |-> d,
             stmts |-> << <<"select", t, record_id>> >>]
       ELSE [result |-> success_result(None),
             db |-> [d EXCEPT ![t] = rows],
             stmts |-> << <<"select", t, record_id>>, <<"update", t, record_id>> >>]

update(d, t, record_id, model) ==
    LET check_result == get_by_id(d, t, record_id)
        data == _model_to_dict(t, model)
        write(row) == [f \in DOMAIN row |->
                          IF f \in DOMAIN data THEN bind_param(t, f, data[f])
                          ELSE row[f]]
        rows == [i \in DOMAIN d[t] |->
                    IF d[t][i].id = record_id THEN write(d[t][i]) ELSE d[t][i]]
    IN IF ~check_result.success
       THEN [result |-> check_result, db |-> d,
             stmts |-> << <<"select", t, record_id>> >>]
       ELSE [result |-> success_result(None),
             db |-> [d EXCEPT ![t] = rows],
             stmts |-> << <<"select", t, record_id>>, <<"update", t, record_id>> >>]

\* delete with ON DELETE CASCADE on the references of session_notes.
delete_cascade(d, t, record_id) ==
    LET check_result == get_by_id(d, t, record_id)
        column == CASE t = "bcbas" -> "bcba"
                    [] t = "patients" -> "patient"
                    [] t = "clinics" -> "clinic"
                    [] OTHER -> "id"
        refers(r) == IF column = "clinic" THEN r.clinic = Some(record_id)
                     ELSE IF column = "id" THEN FALSE
                     ELSE r[column] = record_id
        deleted == [d EXCEPT ![t] = SelectSeq(@, LAMBDA r : r.id # record_id)]
    IN IF ~check_result.success
       THEN [result |-> check_result, db |-> d,
             stmts |-> << <<"select", t, record_id>> >>]
       ELSE [result |-> success_result(None),
             db |-> [deleted EXCEPT !["session_notes"] =
                        SelectSeq(@, LAMBDA r : ~refers(r))],
             stmts |-> << <<"select", t, record_id>>, <<"delete", t, record_id>> >>]

\* delete without its existence check.
delete_unchecked(d, t, record_id) ==
    [result |-> success_result(None),
     db |-> [d EXCEPT ![t] = SelectSeq(@, LAMBDA r : r.id # record_id)],
     stmts |-> << <<"delete", t, record_id>> >>]

delete(d, t, record_id) ==
    LET check_result == get_by_id(d, t, record_id)
    IN IF ~check_result.success
       THEN [result |-> check_result, db |-> d,
             stmts |-> << <<"select", t, record_id>> >>]
       ELSE [result |-> success_result(None),
             db |-> [d EXCEPT ![t] = SelectSeq(@, LAMBDA r : r.id # record_id)],
             stmts |-> << <<"select", t, record_id>>, <<"delete", t, record_id>> >>]

----------------------------------------------------------------------------
(* services/session_note_service.py *)

\* create_with_validation with the patient looked up before the BCBA.
create_with_validation_patient_first(d, bcba, patient_id, notes, clinic_id, apt_date, duration, now) ==
    LET bcba_result == get_by_id(d, "bcbas", bcba)
        patient_result == get_by_id(d, "patients", patient_id)
        clinic_result == get_by_id(d, "clinics", clinic_id[1])
        session_note == [id |-> None, bcba |-> bcba, patient |-> patient_id,
                         clinic |-> clinic_id,
                         apt_date |-> IF apt_date # None THEN apt_date[1]
                                      ELSE DateTime(now, Some("UTC")),
                         duration |-> duration, notes |-> notes]
        created == create(d, "session_notes", session_note)
        q_bcba == << <<"select", "bcbas", bcba>> >>
        q_patient == << <<"select", "patients", patient_id>> >>
        q_clinic == IF clinic_id # None
                    THEN << <<"select", "clinics", clinic_id[1]>> >>
                    ELSE <<>>
    IN IF ~patient_result.success
       THEN [result |-> error_result(<<"Patient with ID ", patient_id, " does not exist">>, 400),
             db |-> d, stmts |-> q_patient]
       ELSE IF ~bcba_result.success
       THEN [result |-> error_result(<<"BCBA with ID ", bcba, " does not exist">>, 400),
             db |-> d, stmts |-> q_patient \o q_bcba]
       ELSE IF clinic_id # None /\ ~clinic_result.success
       THEN [result |-> error_result(<<"Clinic with ID ", clinic_id[1], " does not exist">>, 400),
             db |-> d, stmts |-> q_patient \o q_bcba \o q_clinic]
       ELSE [result |-> created.result, db |-> created.db,
             stmts |-> q_patient \o q_bcba \o q_clinic \o created.stmts]

\* now is the reading of the clock used when no appointment time is given.
create_with_validation(d, bcba, patient_id, notes, clinic_id, apt_date, duration, now) ==
    LET bcba_result == get_by_id(d, "bcbas", bcba)
        patient_result == get_by_id(d, "patients", patient_id)
        clinic_result == get_by_id(d, "clinics", clinic_id[1])
        session_note == [id |-> None,
                         bcba |-> bcba,
                         patient |-> patient_id,
                         clinic |-> clinic_id,
                         apt_date |-> IF apt_date # None THEN apt_date[1]
                                      ELSE DateTime(now, Some("UTC")),
                         duration |-> duration,
                         notes |-> notes]
        created == create(d, "session_notes", session_note)
        q_bcba == << <<"select", "bcbas", bcba>> >>
        q_patient == << <<"select", "patients", patient_id>> >>
        q_clinic == IF clinic_id # None
                    THEN << <<"select", "clinics", clinic_id[1]>> >>
                    ELSE <<>>
    IN IF ~bcba_result.success
       THEN [result |-> error_result(<<"BCBA with ID ", bcba, " does not exist">>, 400),
             db |-> d, stmts |-> q_bcba]
       ELSE IF ~patient_result.success
       THEN [result |-> error_result(<<"Patient with ID ", patient_id, " does not exist">>, 400),
             db |-> d, stmts |-> q_bcba \o q_patient]
       ELSE IF clinic_id # None /\ ~clinic_result.success
       THEN [result |-> error_result(<<"Clinic with ID ", clinic_id[1], " does not exist">>, 400),
             db |-> d, stmts |-> q_bcba \o q_patient \o q_clinic]
       ELSE [result |-> created.result, db |-> created.db,
             stmts |-> q_bcba \o q_patient \o q_clinic \o created.stmts]

\* get_by_bcba whose statement has no WHERE clause.
get_by_bcba_unfiltered(d, bcba_id) ==
    LET results == d["session_notes"]
    IN success_result([i \in DOMAIN results |->
                          _row_to_model("session_notes", results[i])])

get_by_bcba(d, bcba_id) ==
    LET results == SelectSeq(d["session_notes"], LAMBDA r : r.bcba = bcba_id)
    IN success_result([i \in DOMAIN results |->
                          _row_to_model("session_notes", results[i])])

\* datetime.isoformat() of the naive datetime a DateTime column is read as.
isoformat(wall) == <<"isoformat", wall>>

\* The rows of session_notes JOIN patients LEFT OUTER JOIN clinics JOIN bcbas
\* that one note contributes: none when its patient or its BCBA has no row,
\* otherwise one, with NULL for the clinic's name when no clinic row matches.
joined(d, note) ==
    LET patient == select_by_id(d["patients"], note.patient)
        clinic == IF note.clinic = None THEN <<>>
                  ELSE select_by_id(d["clinics"], note.clinic[1])
        bcba == select_by_id(d["bcbas"], note.bcba)
    IN IF patient = <<>> \/ bcba = <<>> THEN <<>>
       ELSE << [note |-> note,
                patient_first_name |-> patient[1].first_name,
                patient_last_name |-> patient[1].last_name,
                clinic_name |-> IF clinic = <<>> THEN None ELSE Some(clinic[1].name),
                bcba_name |-> bcba[1].name] >>

\* The dictionary built with `clinic_name is not None` in place of the
\* truth test.
note_with_details_is_not_none(row) ==
    [id |-> row.note.id,
     bcba |-> row.note.bcba,
     patient |-> row.note.patient,
     clinic |-> row.note.clinic,
     apt_date |-> isoformat(row.note.apt_date),
     duration |-> row.note.duration,
     notes |-> row.note.notes,
     patient_name |-> <<row.patient_first_name, " ", row.patient_last_name>>,
     clinic_name |-> IF row.clinic_name # None
                     THEN row.clinic_name[1] ELSE "No Clinic",
     bcba_name |-> row.bcba_name]

\* `row.clinic_name if row.clinic_name else 'No Clinic'` is a truth test: NULL
\* and the empty string both give the sentinel.
note_with_details(row) ==
    [id |-> row.note.id,
     bcba |-> row.note.bcba,
     patient |-> row.note.patient,
     clinic |-> row.note.clinic,
     apt_date |-> isoformat(row.note.apt_date),
     duration |-> row.note.duration,
     notes |-> row.note.notes,
     patient_name |-> <<row.patient_first_name, " ", row.patient_last_name>>,
     clinic_name |-> IF row.clinic_name # None /\ row.clinic_name[1] # ""
                     THEN row.clinic_name[1] ELSE "No Clinic",
     bcba_name |-> row.bcba_name]

RECURSIVE flatten(_)
flatten(ss) == IF ss = <<>> THEN <<>> ELSE Head(ss) \o flatten(Tail(ss))

\* get_by_bcba_with_details with get_by_id_with_details' "if not result".
get_by_bcba_with_details_not_found(d, bcba_id) ==
    LET notes == SelectSeq(d["session_notes"], LAMBDA r : r.bcba = bcba_id)
        results == flatten([i \in DOMAIN notes |-> joined(d, notes[i])])
    IN IF results = <<>>
       THEN error_result(<<"Session notes for BCBA ", bcba_id, " not found">>, 404)
       ELSE success_result([i \in DOMAIN results |-> note_with_details(results[i])])

get_by_bcba_with_details(d, bcba_id) ==
    LET notes == SelectSeq(d["session_notes"], LAMBDA r : r.bcba = bcba_id)
        results == flatten([i \in DOMAIN notes |-> joined(d, notes[i])])
    IN success_result([i \in DOMAIN results |-> note_with_details(results[i])])

get_by_id_with_details(d, note_id) ==
    LET notes == select_by_id(d["session_notes"], note_id)
        result == flatten([i \in DOMAIN notes |-> joined(d, notes[i])])
    IN IF result = <<>>
       THEN error_result(<<"Session note with ID ", note_id, " not found">>, 404)
       ELSE success_result(note_with_details(result[1]))

----------------------------------------------------------------------------
(* utils/singleton.py and the services' __init__ *)

ServiceClasses ==
    {"BcbaService", "PatientService", "ClinicService", "SessionNoteService"}

\* Each service's __init__ builds the repository of its own table.
__init__(cls) ==
    [class |-> cls,
     repository |-> CASE cls = "BcbaService" -> "bcbas"
                      [] cls = "PatientService" -> "patients"
                      [] cls = "ClinicService" -> "clinics"
                      [] cls = "SessionNoteService" -> "session_notes"]

\* __call__ without its `if cls not in cls._instances`.
__call___always_constructs(instances, objs, cls) ==
    [instances |-> [c \in (DOMAIN instances) \cup {cls} |->
                       IF c = cls THEN Len(objs) + 1 ELSE instances[c]],
     objects |-> Append(objs, __init__(cls)),
     result |-> Len(objs) + 1]

\* SingletonMeta.__call__: the registry and the objects after the call, and
\* the instance the call returns.
__call__(instances, objs, cls) ==
    IF cls \notin DOMAIN instances
    THEN [instances |-> [c \in (DOMAIN instances) \cup {cls} |->
                            IF c = cls THEN Len(objs) + 1 ELSE instances[c]],
          objects |-> Append(objs, __init__(cls)),
          result |-> Len(objs) + 1]
    ELSE [instances |-> instances, objects |-> objs, result |-> instances[cls]]

\* The registry of a process in which every service has answered a call:
\* the calls below find their service constructed and leave the registry alone.
Constructed ==
    LET s1 == __call__(<<>>, <<>>, "BcbaService")
        s2 == __call__(s1.instances, s1.objects, "PatientService")
        s3 == __call__(s2.instances, s2.objects, "ClinicService")
    IN __call__(s3.instances, s3.objects, "SessionNoteService")

----------------------------------------------------------------------------------------------------------------------------------------
(* The values the calls are made with *)

\* Number of successful inserts explored after the fixtures' three.
MaxCreates == 2

\* The ids callers pass to get_by_id, update, delete and create_with_validation.
Ids == {1, 2}

\* The reading of the clock in datetime.now(tz=timezone.utc).
Clock == {10}

\* apt_date, duration and notes of a session note: the optional fields
\* unset, falsy and set; the appointment time naive or in UTC.
Bodies == { <<DateTime(10, None), None, None>>,
            <<DateTime(10, Some("UTC")), Some(0), Some("")>>,
            <<DateTime(10, Some("UTC")), Some(60), Some("x")>> }

\* The same for create_with_validation, whose apt_date may be left out.
RequestBodies == { <<None, None, None>>,
                   <<Some(DateTime(10, Some("UTC"))), Some(0), Some("")>>,
                   <<Some(DateTime(10, None)), Some(60), Some("x")>> }

sample_bcba == [id |-> None, name |-> "Dr. Test BCBA"]

sample_patient == [id |-> None, first_name |-> "John", last_name |-> "Doe",
                   DOB |-> 20150101, ICD |-> Some("F84.0"),
                   address |-> Some("123 Test Street")]

sample_clinic == [id |-> None, name |-> "Test ABA Clinic",
                  address |-> Some("456 Clinic Ave")]

\* The models create and update are called with: the fixtures' records, the
\* same without their optional fields, and one that carries an id.
Models(t) ==
    CASE t = "bcbas" -> {sample_bcba, [sample_bcba EXCEPT !.id = Some(2)]}
      [] t = "patients" ->
            {sample_patient,
             [sample_patient EXCEPT !.ICD = None, !.address = None],
             [sample_patient EXCEPT !.id = Some(2)]}
      [] t = "clinics" ->
            {sample_clinic,
             [sample_clinic EXCEPT !.address = None],
             [sample_clinic EXCEPT !.id = Some(2)]}
      [] t = "session_notes" ->
            { [id |-> None, bcba |-> 1, patient |-> 1, clinic |-> c,
               apt_date |-> b[1], duration |-> b[2], notes |-> b[3]] :
              c \in {None, Some(1)}, b \in Bodies }
            \cup
            { [id |-> Some(2), bcba |-> 1, patient |-> 1, clinic |-> None,
               apt_date |-> DateTime(10, Some("UTC")), duration |-> Some(60),
               notes |-> Some("x")] }

----------------------------------------------------------------------------
(* The calls *)

\* The inserts made after the fixtures'.
TotalIssued ==
    Len(issued["bcbas"]) + Len(issued["patients"])
        + Len(issued["clinics"]) + Len(issued["session_notes"]) - 3

\* The database as the test fixtures sample_bcba, sample_patient and
\* sample_clinic leave it: one row in each of the three tables, no session note.
Init ==
    LET empty == [t \in Tables |-> <<>>]
        d1 == create(empty, "bcbas", sample_bcba).db
        d2 == create(d1, "patients", sample_patient).db
        d3 == create(d2, "clinics", sample_clinic).db
    IN /\ db = d3
       /\ _instances = Constructed.instances
       /\ objects = Constructed.objects
       /\ issued = [t \in Tables |-> IF t = "session_notes" THEN <<>> ELSE <<1>>]
       /\ last = NoCall
       /\ threads = NoThreads

GetById(t, record_id) ==
    /\ last = NoCall
    /\ last' = [op |-> "get_by_id", table |-> t, record_id |-> record_id,
                result |-> get_by_id(db, t, record_id),
                stmts |-> << <<"select", t, record_id>> >>]
    /\ UNCHANGED <<db, issued, services, threads>>

GetAll(t) ==
    /\ last = NoCall
    /\ last' = [op |-> "get_all", table |-> t, result |-> get_all(db, t),
                stmts |-> << <<"select", t>> >>]
    /\ UNCHANGED <<db, issued, services, threads>>

Create(t, model) ==
    /\ last = NoCall
    /\ TotalIssued < MaxCreates
    /\ LET r == create(db, t, model)
       IN /\ db' = r.db
          /\ issued' = [issued EXCEPT ![t] = Append(@, r.result.data)]
          /\ last' = [op |-> "create", table |-> t, model |-> model,
                      result |-> r.result, stmts |-> r.stmts]
    /\ UNCHANGED <<services, threads>>

Update(t, record_id, model) ==
    /\ last = NoCall
    /\ LET r == update(db, t, record_id, model)
       IN /\ db' = r.db
          /\ last' = [op |-> "update", table |-> t, record_id |-> record_id,
                      model |-> model, result |-> r.result, stmts |-> r.stmts]
    /\ UNCHANGED <<issued, services, threads>>

Delete(t, record_id) ==
    /\ last = NoCall
    /\ LET r == delete(db, t, record_id)
       IN /\ db' = r.db
          /\ last' = [op |-> "delete", table |-> t, record_id |-> record_id,
                      result |-> r.result, stmts |-> r.stmts]
    /\ UNCHANGED <<issued, services, threads>>

CreateWithValidation(bcba, patient_id, notes, clinic_id, apt_date, duration, now) ==
    LET r == create_with_validation(db, bcba, patient_id, notes, clinic_id,
                                    apt_date, duration, now)
    IN /\ last = NoCall
       /\ r.result.success => TotalIssued < MaxCreates
       /\ db' = r.db
       /\ issued' = IF r.result.success
                    THEN [issued EXCEPT !["session_notes"] = Append(@, r.result.data)]
                    ELSE issued
       /\ last' = [op |-> "create_with_validation",
                   args |-> [bcba |-> bcba, patient_id |-> patient_id, notes |-> notes,
                             clinic_id |-> clinic_id, apt_date |-> apt_date,
                             duration |-> duration],
                   result |-> r.result, stmts |-> r.stmts]
       /\ UNCHANGED <<services, threads>>

GetByBcba(bcba_id) ==
    /\ last = NoCall
    /\ last' = [op |-> "get_by_bcba", bcba_id |-> bcba_id,
                result |-> get_by_bcba(db, bcba_id)]
    /\ UNCHANGED <<db, issued, services, threads>>

GetByBcbaWithDetails(bcba_id) ==
    /\ last = NoCall
    /\ last' = [op |-> "get_by_bcba_with_details", bcba_id |-> bcba_id,
                result |-> get_by_bcba_with_details(db, bcba_id)]
    /\ UNCHANGED <<db, issued, services, threads>>

GetByIdWithDetails(note_id) ==
    /\ last = NoCall
    /\ last' = [op |-> "get_by_id_with_details", note_id |-> note_id,
                result |-> get_by_id_with_details(db, note_id)]
    /\ UNCHANGED <<db, issued, services, threads>>

\* The caller takes the Result; the next call can start.
Return ==
    /\ last # NoCall
    /\ last' = NoCall
    /\ UNCHANGED <<db, issued, services, threads>>

Next ==
    \/ \E t \in Tables, record_id \in Ids : GetById(t, record_id)
    \/ \E t \in Tables : GetAll(t)
    \/ \E t \in Tables : \E model \in Models(t) : Create(t, model)
    \/ \E t \in Tables, record_id \in Ids : \E model \in Models(t) :
          Update(t, record_id, model)
    \/ \E t \in Tables, record_id \in Ids : Delete(t, record_id)
    \/ \E bcba \in Ids, patient_id \in Ids,
          clinic_id \in {None} \cup {Some(c) : c \in Ids},
          b \in RequestBodies, now \in Clock :
          CreateWithValidation(bcba, patient_id, b[3], clinic_id, b[1], b[2], now)
    \/ Return

Spec == Init /\ [][Next]_vars

----------------------------------------------------------------------------
(* The reads of services/session_note_service.py *)

\* The clinics created here: the fixture's and one whose name is empty.
Clinics == {sample_clinic, [sample_clinic EXCEPT !.name = ""]}

\* The database as the fixtures multiple_bcbas and sample_patient leave it:
\* two BCBAs, one patient, no clinic and no session note.
InitDetails ==
    LET empty == [t \in Tables |-> <<>>]
        d1 == create(empty, "bcbas", [id |-> None, name |-> "Dr. Test BCBA 1"]).db
        d2 == create(d1, "bcbas", [id |-> None, name |-> "Dr. Test BCBA 2"]).db
        d3 == create(d2, "patients", sample_patient).db
    IN /\ db = d3
       /\ _instances = Constructed.instances
       /\ objects = Constructed.objects
       /\ issued = [t \in Tables |->
                       CASE t = "bcbas" -> <<1, 2>>
                         [] t = "patients" -> <<1>>
                         [] OTHER -> <<>>]
       /\ last = NoCall
       /\ threads = NoThreads

NextDetails ==
    \/ \E model \in Clinics : Create("clinics", model)
    \/ \E bcba \in Ids, patient_id \in Ids,
          clinic_id \in {None} \cup {Some(c) : c \in Ids},
          b \in RequestBodies, now \in Clock :
          CreateWithValidation(bcba, patient_id, b[3], clinic_id, b[1], b[2], now)
    \/ \E t \in Tables, record_id \in Ids : Delete(t, record_id)
    \/ \E record_id \in Ids : GetById("session_notes", record_id)
    \/ \E bcba_id \in Ids : GetByBcba(bcba_id)
    \/ \E bcba_id \in Ids : GetByBcbaWithDetails(bcba_id)
    \/ \E note_id \in Ids : GetByIdWithDetails(note_id)
    \/ Return

DetailSpec == InitDetails /\ [][NextDetails]_vars

----------------------------------------------------------------------------
(* Properties *)

RowExists(d, t, record_id) == \E i \in DOMAIN d[t] : d[t][i].id = record_id

RowOf(d, t, record_id) ==
    d[t][CHOOSE i \in DOMAIN d[t] : d[t][i].id = record_id]

Failure(error, status_code) ==
    [success |-> FALSE, data |-> None, error |-> error, status_code |-> status_code]

DoesNotExist(kind, n) == Failure(<<kind, n, " does not exist">>, 400)

BcbaValid(d, a) == RowExists(d, "bcbas", a.bcba)
PatientValid(d, a) == RowExists(d, "patients", a.patient_id)
ClinicValid(d, a) ==
    a.clinic_id = None \/ RowExists(d, "clinics", a.clinic_id[1])

\* C1: create_with_validation looks up the BCBA, then the patient, then the
\* clinic, and stops at the first lookup that fails: the failure returned is
\* that of the first invalid reference in this order, and the statements
\* executed end with the failing lookup.
C1_ValidationOrder ==
    last.op = "create_with_validation" =>
        LET a == last.args
            q_bcba == <<"select", "bcbas", a.bcba>>
            q_patient == <<"select", "patients", a.patient_id>>
        IN /\ ~BcbaValid(db, a) =>
                /\ last.result = DoesNotExist("BCBA with ID ", a.bcba)
                /\ last.stmts = <<q_bcba>>
           /\ BcbaValid(db, a) /\ ~PatientValid(db, a) =>
                /\ last.result = DoesNotExist("Patient with ID ", a.patient_id)
                /\ last.stmts = <<q_bcba, q_patient>>
           /\ BcbaValid(db, a) /\ PatientValid(db, a) /\ ~ClinicValid(db, a) =>
                /\ last.result = DoesNotExist("Clinic with ID ", a.clinic_id[1])
                /\ last.stmts = <<q_bcba, q_patient,
                                  <<"select", "clinics", a.clinic_id[1]>> >>

\* A call in which the BCBA, the patient and the clinic are all invalid.
C1_Witness ==
    /\ last.op = "create_with_validation"
    /\ ~BcbaValid(db, last.args)
    /\ ~PatientValid(db, last.args)
    /\ ~ClinicValid(db, last.args)
    /\ last.result.error = <<"BCBA with ID ", last.args.bcba, " does not exist">>

\* C2: a create_with_validation call whose bcba id, patient id or supplied
\* clinic id names no existing row returns a Failure with status 400 whose
\* message names an invalid reference and its id, and inserts nothing: every
\* table is after the call what it was before.
C2_Step ==
    (/\ last'.op = "create_with_validation"
     /\ ~(/\ BcbaValid(db, last'.args)
          /\ PatientValid(db, last'.args)
          /\ ClinicValid(db, last'.args)))
    => LET a == last'.args
       IN /\ ~last'.result.success
          /\ last'.result.status_code = 400
          /\ last'.result.data = None
          /\ \/ /\ ~BcbaValid(db, a)
                /\ last'.result.error = <<"BCBA with ID ", a.bcba, " does not exist">>
             \/ /\ ~PatientValid(db, a)
                /\ last'.result.error =
                       <<"Patient with ID ", a.patient_id, " does not exist">>
             \/ /\ ~ClinicValid(db, a)
                /\ last'.result.error =
                       <<"Clinic with ID ", a.clinic_id[1], " does not exist">>
          /\ db' = db
          /\ issued' = issued

\* C2: a create_with_validation call with an invalid reference returns a 400
\* Failure naming it and changes no table (every step satisfies C2_Step).
C2_InvalidReferenceRejected == [][C2_Step]_vars

\* A call rejected for its clinic alone.
C2_Witness ==
    /\ last.op = "create_with_validation"
    /\ BcbaValid(db, last.args)
    /\ PatientValid(db, last.args)
    /\ ~ClinicValid(db, last.args)
    /\ ~last.result.success
    /\ last.result.status_code = 400

\* C3: with an existing BCBA, an existing patient and a clinic that is null
\* or exists, create_with_validation returns Success carrying the new note's
\* integer id, and get_by_id of that id returns a note whose bcba, patient,
\* clinic, duration and notes are the arguments.
C3_ValidatedCreateStoresArguments ==
    (/\ last.op = "create_with_validation"
     /\ BcbaValid(db, last.args)
     /\ PatientValid(db, last.args)
     /\ ClinicValid(db, last.args))
    => LET a == last.args
           got == get_by_id(db, "session_notes", last.result.data)
       IN /\ last.result.success
          /\ last.result.status_code = 200
          /\ last.result.data \in Nat
          /\ got.success
          /\ got.data.id = Some(last.result.data)
          /\ got.data.bcba = a.bcba
          /\ got.data.patient = a.patient_id
          /\ got.data.clinic = a.clinic_id
          /\ got.data.duration = a.duration
          /\ got.data.notes = a.notes

\* A note created without a clinic, with duration 0 and empty notes.
C3_Witness ==
    /\ last.op = "create_with_validation"
    /\ last.result.success
    /\ last.args.clinic_id = None
    /\ last.args.duration = Some(0)
    /\ last.args.notes = Some("")

Success(data) ==
    [success |-> TRUE, data |-> data, error |-> None, status_code |-> 200]

NotFound(record_id) == Failure(<<"Record with ID ", record_id, " not found">>, 404)

\* A field of a model is supplied when it is not None.
Supplied(t, model, f) == f \in OptionalFields(t) => model[f] # None

\* What a read returns for a value that was written.
ReadBack(f, v) == IF f = "apt_date" THEN DateTime(v.wall, None) ELSE v

\* What the row holds for a value that was written.
StoredAs(f, v) == IF f = "apt_date" THEN v.wall ELSE v

\* C4 as stated: after a successful create(record), get_by_id of the returned
\* id returns a record equal to the input in every field except id, with id
\* the returned id.
C4_RoundTripExact ==
    (last.op = "create" /\ last.result.success) =>
        get_by_id(db, last.table, last.result.data)
            = Success([last.model EXCEPT !.id = Some(last.result.data)])

C4_AfterCreate ==
    (last.op = "create" /\ last.result.success) =>
        get_by_id(db, last.table, last.result.data)
            = Success([f \in DOMAIN last.model |->
                          IF f = "id" THEN Some(last.result.data)
                          ELSE ReadBack(f, last.model[f])])

C4_Frame ==
    \A t \in Tables, record_id \in Ids :
        (/\ RowExists(db, t, record_id)
         /\ ~(/\ last'.op \in {"update", "delete"}
              /\ last'.table = t
              /\ last'.record_id = record_id))
        => get_by_id(db', t, record_id) = get_by_id(db, t, record_id)

\* C4, amended: after a successful create(record), get_by_id of the returned
\* id returns a record whose id is the returned id and which equals the input
\* in every other field, a time-zone-aware apt_date being read back as the
\* naive datetime with the same wall-clock reading; and no call other than an
\* update or delete of that id changes what get_by_id returns for it.
C4_RoundTrip == [](C4_AfterCreate) /\ [][C4_Frame]_vars

\* A session note created with a time-zone-aware appointment time.
C4_Witness ==
    /\ last.op = "create"
    /\ last.result.success
    /\ last.table = "session_notes"
    /\ last.model.apt_date.tzinfo # None
    /\ last.model.clinic # None

\* C5: get_by_id(id) returns Success carrying the stored record with that id
\* exactly when a row with that id is in the table, returns the 404 Failure
\* when there is none, and leaves the database as it was.
C5_Step ==
    last'.op = "get_by_id" =>
        LET t == last'.table
            record_id == last'.record_id
            r == last'.result
        IN /\ db' = db
           /\ IF RowExists(db, t, record_id)
              THEN /\ r.success
                   /\ r.status_code = 200
                   /\ r.error = None
                   /\ DOMAIN r.data = Columns(t)
                   /\ r.data.id = Some(record_id)
                   /\ \A f \in Columns(t) \ {"id"} :
                         r.data[f] = IF f = "apt_date"
                                     THEN DateTime(RowOf(db, t, record_id)[f], None)
                                     ELSE RowOf(db, t, record_id)[f]
              ELSE r = NotFound(record_id)

\* C5: get_by_id succeeds exactly when the row exists, returns the 404 Failure
\* otherwise and changes nothing (every step satisfies C5_Step).
C5_GetById == [][C5_Step]_vars

\* get_by_id of an id that was created and deleted.
C5_Witness ==
    /\ last.op = "get_by_id"
    /\ ~last.result.success
    /\ \E i \in DOMAIN issued[last.table] : issued[last.table][i] = last.record_id

\* C6: delete(id) of an existing id returns Success without payload and
\* get_by_id(id) then returns the 404 Failure; delete(id) of an id that is not
\* in the table returns the 404 Failure and leaves the database as it was.
C6_Step ==
    last'.op = "delete" =>
        LET t == last'.table
            record_id == last'.record_id
        IN IF RowExists(db, t, record_id)
           THEN /\ last'.result = Success(None)
                /\ get_by_id(db', t, record_id) = NotFound(record_id)
                /\ ~RowExists(db', t, record_id)
           ELSE /\ last'.result = NotFound(record_id)
                /\ db' = db

\* C6: delete removes an existing row and returns Success, and returns the 404
\* Failure for an absent id, changing nothing (every step satisfies C6_Step).
C6_Delete == [][C6_Step]_vars

\* delete of an id that was created and is no longer in the table.
C6_Witness ==
    /\ last.op = "delete"
    /\ last.result = NotFound(last.record_id)
    /\ \E i \in DOMAIN issued[last.table] : issued[last.table][i] = last.record_id

\* C7: update(id, record) of an id that is not in the table returns the
\* Failure get_by_id(id) returns (status 404, same message), executes no write
\* statement and leaves the database as it was.
C7_Step ==
    (last'.op = "update" /\ ~RowExists(db, last'.table, last'.record_id)) =>
        /\ last'.result = get_by_id(db, last'.table, last'.record_id)
        /\ last'.result = NotFound(last'.record_id)
        /\ \A i \in DOMAIN last'.stmts : last'.stmts[i][1] = "select"
        /\ db' = db

\* C7: update of an absent id returns get_by_id's 404 Failure without writing
\* (every step satisfies C7_Step).
C7_UpdateAbsent == [][C7_Step]_vars

\* update of an absent id in a table that holds other rows.
C7_Witness ==
    /\ last.op = "update"
    /\ ~last.result.success
    /\ last.result.status_code = 404
    /\ db[last.table] # <<>>

\* C8: update(id, record) of an existing id returns Success without payload;
\* in the row with that id every non-id field that is non-null in record
\* takes record's value and every other field keeps its value; all other rows
\* and tables are as before.
C8_Step ==
    (last'.op = "update" /\ RowExists(db, last'.table, last'.record_id)) =>
        LET t == last'.table
            record_id == last'.record_id
            model == last'.model
        IN /\ last'.result = Success(None)
           /\ \A u \in Tables \ {t} : db'[u] = db[u]
           /\ Len(db'[t]) = Len(db[t])
           /\ \A i \in DOMAIN db[t] :
                 IF db[t][i].id = record_id
                 THEN \A f \in Columns(t) :
                         db'[t][i][f] =
                            IF f # "id" /\ Supplied(t, model, f)
                            THEN StoredAs(f, model[f])
                            ELSE db[t][i][f]
                 ELSE db'[t][i] = db[t][i]

\* C8: update of an existing id writes exactly the non-null non-id fields of
\* the record (every step satisfies C8_Step).
C8_SparsePatch == [][C8_Step]_vars

\* An update of a session note that sets duration and leaves the stored
\* clinic alone, in a table with a second note.
C8_Witness ==
    /\ last.op = "update"
    /\ last.result.success
    /\ last.table = "session_notes"
    /\ last.model.clinic = None
    /\ last.model.duration = Some(0)
    /\ RowOf(db, "session_notes", last.record_id).clinic # None
    /\ Len(db["session_notes"]) = 2

\* C9 as stated: after a successful update(id, record), get_by_id(id) returns
\* a record equal to record in all non-id fields, the null ones included.
C9_WholeRecordReplace ==
    (last.op = "update" /\ last.result.success) =>
        get_by_id(db, last.table, last.record_id)
            = Success([last.model EXCEPT !.id = Some(last.record_id)])

\* C9, amended: after a successful update(id, record), get_by_id(id) returns
\* a record that equals record in every non-id field that is non-null in
\* record (a time-zone-aware apt_date read back naive) and that has, in every
\* field that is null in record, the value get_by_id(id) returned before.
C9_Step ==
    (last'.op = "update" /\ last'.result.success) =>
        LET t == last'.table
            record_id == last'.record_id
            model == last'.model
            old == get_by_id(db, t, record_id)
            new == get_by_id(db', t, record_id)
        IN /\ old.success
           /\ new.success
           /\ new.data.id = Some(record_id)
           /\ \A f \in (DOMAIN model) \ {"id"} :
                 new.data[f] = IF Supplied(t, model, f)
                               THEN ReadBack(f, model[f])
                               ELSE old.data[f]

\* C9: amended, after a successful update get_by_id returns the record's
\* non-null fields and the earlier values of its null ones (every step
\* satisfies C9_Step).
C9_UpdateReadBack == [][C9_Step]_vars

\* An update of a patient with no ICD in the record over a stored ICD.
C9_Witness ==
    /\ last.op = "update"
    /\ last.result.success
    /\ last.table = "patients"
    /\ last.model.ICD = None
    /\ RowOf(db, "patients", last.record_id).ICD # None

\* C10: in each table the ids returned by successful create calls are
\* strictly increasing over the whole history, so none is returned twice.
C10_IdsStrictlyIncreasing ==
    \A t \in Tables :
        \A i, j \in DOMAIN issued[t] : i < j => issued[t][i] < issued[t][j]


----------------------------------------------------------------------------
(* main.py: the session-note routes *)

\* What FastAPI sends for a handler that returns a mapping, and for one that
\* raises HTTPException.
Response(content) == [status_code |-> 200, body |-> content]

HTTPException(status_code, detail) ==
    [status_code |-> status_code, body |-> [detail |-> detail]]

\* updated_note choosing with `or`: a supplied 0 or "" counts as left out.
updated_note_truthy(note_id, request, existing_note) ==
    [id |-> Some(note_id),
     bcba |-> IF request.bcba # None THEN request.bcba[1] ELSE existing_note.bcba,
     patient |-> IF request.patient_id # None THEN request.patient_id[1]
                 ELSE existing_note.patient,
     clinic |-> IF request.clinic_id # None THEN request.clinic_id
                ELSE existing_note.clinic,
     apt_date |-> IF request.apt_date # None THEN request.apt_date[1]
                  ELSE existing_note.apt_date,
     duration |-> IF request.duration # None /\ request.duration # Some(0)
                  THEN request.duration ELSE existing_note.duration,
     notes |-> IF request.notes # None /\ request.notes # Some("")
               THEN request.notes ELSE existing_note.notes]

\* The SessionNote edit_session_note builds from the stored note and the
\* request: a field of the request that is None keeps the stored value.
updated_note(note_id, request, existing_note) ==
    [id |-> Some(note_id),
     bcba |-> IF request.bcba # None THEN request.bcba[1] ELSE existing_note.bcba,
     patient |-> IF request.patient_id # None THEN request.patient_id[1]
                 ELSE existing_note.patient,
     clinic |-> IF request.clinic_id # None THEN request.clinic_id
                ELSE existing_note.clinic,
     apt_date |-> IF request.apt_date # None THEN request.apt_date[1]
                  ELSE existing_note.apt_date,
     duration |-> IF request.duration # None THEN request.duration
                  ELSE existing_note.duration,
     notes |-> IF request.notes # None THEN request.notes
               ELSE existing_note.notes]

\* Each handler yields the Result of its service call, the database after it
\* and the response sent.
get_session_notes_by_bcba(d, bcba_id) ==
    LET result == get_by_bcba_with_details(d, bcba_id)
    IN [result |-> result, db |-> d, response |-> Response(to_response(result))]

get_session_note_by_id(d, note_id) ==
    LET result == get_by_id_with_details(d, note_id)
    IN [result |-> result, db |-> d, response |-> Response(to_response(result))]

add_session_note(d, request, now) ==
    LET r == create_with_validation(d, request.bcba, request.patient_id,
                                    request.notes, request.clinic_id,
                                    request.apt_date, request.duration, now)
    IN [result |-> r.result, db |-> r.db,
        response |-> Response(to_response(r.result))]

edit_session_note(d, note_id, request) ==
    LET existing_result == get_by_id(d, "session_notes", note_id)
        r == update(d, "session_notes", note_id,
                    updated_note(note_id, request, existing_result.data))
    IN IF ~existing_result.success
       THEN [result |-> existing_result, db |-> d,
             response |-> Response(to_response(existing_result))]
       ELSE [result |-> r.result, db |-> r.db,
             response |-> Response(to_response(r.result))]

delete_session_note(d, note_id) ==
    LET r == delete(d, "session_notes", note_id)
    IN [result |-> r.result, db |-> r.db,
        response |-> Response(to_response(r.result))]

\* The bodies of POST /api/session-notes.
CreateRequests ==
    { [bcba |-> bcba, patient_id |-> 1, clinic_id |-> clinic_id,
       apt_date |-> b[1], duration |-> b[2], notes |-> b[3]] :
      bcba \in Ids, clinic_id \in {None, Some(1)}, b \in RequestBodies }

\* The bodies of PUT /api/session-notes/{note_id}: nothing, one field, a
\* reference to a row that does not exist, every field.
no_change ==
    [bcba |-> None, patient_id |-> None, clinic_id |-> None,
     apt_date |-> None, duration |-> None, notes |-> None]

EditRequests ==
    { no_change,
      [no_change EXCEPT !.notes = Some("y")],
      [no_change EXCEPT !.duration = Some(0), !.clinic_id = Some(1)],
      [no_change EXCEPT !.clinic_id = Some(2)],
      [no_change EXCEPT !.bcba = Some(2)],
      [bcba |-> Some(1), patient_id |-> Some(2), clinic_id |-> Some(1),
       apt_date |-> Some(DateTime(20, Some("UTC"))), duration |-> Some(30),
       notes |-> Some("")] }

\* The records the services' update is called with here: a patient and a
\* clinic without their optional fields, a session note without any.
UpdateModels(t) ==
    CASE t = "patients" -> {[sample_patient EXCEPT !.ICD = None, !.address = None]}
      [] t = "clinics" -> {[sample_clinic EXCEPT !.address = None]}
      [] t = "session_notes" ->
            { [id |-> None, bcba |-> 1, patient |-> 1, clinic |-> None,
               apt_date |-> DateTime(10, None), duration |-> None,
               notes |-> None] }

Sent(op, args, r) ==
    [op |-> op, args |-> args, result |-> r.result, response |-> r.response]

GetSessionNotesByBcba(bcba_id) ==
    /\ last = NoCall
    /\ last' = Sent("get_session_notes_by_bcba", [bcba_id |-> bcba_id],
                    get_session_notes_by_bcba(db, bcba_id))
    /\ UNCHANGED <<db, issued, services, threads>>

GetSessionNoteById(note_id) ==
    /\ last = NoCall
    /\ last' = Sent("get_session_note_by_id", [note_id |-> note_id],
                    get_session_note_by_id(db, note_id))
    /\ UNCHANGED <<db, issued, services, threads>>

AddSessionNote(request, now) ==
    /\ last = NoCall
    /\ LET r == add_session_note(db, request, now)
       IN /\ r.result.success => TotalIssued < MaxCreates
          /\ db' = r.db
          /\ issued' = IF r.result.success
                        THEN [issued EXCEPT !["session_notes"] = Append(@, r.result.data)]
                        ELSE issued
          /\ last' = Sent("add_session_note", [request |-> request], r)
    /\ UNCHANGED <<services, threads>>

EditSessionNote(note_id, request) ==
    /\ last = NoCall
    /\ LET r == edit_session_note(db, note_id, request)
       IN /\ db' = r.db
          /\ last' = Sent("edit_session_note",
                          [note_id |-> note_id, request |-> request], r)
    /\ UNCHANGED <<issued, services, threads>>

DeleteSessionNote(note_id) ==
    /\ last = NoCall
    /\ LET r == delete_session_note(db, note_id)
       IN /\ db' = r.db
          /\ last' = Sent("delete_session_note", [note_id |-> note_id], r)
    /\ UNCHANGED <<issued, services, threads>>

NextHttp ==
    \/ \E bcba_id \in Ids : GetSessionNotesByBcba(bcba_id)
    \/ \E note_id \in Ids : GetSessionNoteById(note_id)
    \/ \E request \in CreateRequests, now \in Clock : AddSessionNote(request, now)
    \/ \E note_id \in Ids, request \in EditRequests :
          EditSessionNote(note_id, request)
    \/ \E note_id \in Ids : DeleteSessionNote(note_id)
    \/ \E t \in {"patients", "clinics", "session_notes"}, record_id \in Ids :
          \E model \in UpdateModels(t) : Update(t, record_id, model)
    \/ Return

HttpSpec == Init /\ [][NextHttp]_vars

----------------------------------------------------------------------------
(* The operations under storage faults *)

\* Where the storage layer fails during a call: nowhere, in the operation's
\* SELECT, in its INSERT, UPDATE or DELETE, or in the COMMIT that ends the
\* `with engine.begin()` block.  A fault at a step the call never reaches
\* does not happen.
Faults == {"none", "select", "write", "commit"}

\* How a block of code ends: by raising or by returning a Result, with the
\* database as the block leaves it (a transaction that raises is rolled back).
Raised(exception, d) ==
    [raised |-> TRUE, exception |-> exception, result |-> None, db |-> d]

Returned(result, d) ==
    [raised |-> FALSE, exception |-> None, result |-> result, db |-> d]

\* try: body / except Exception as e: return Result.error_result(f"{message}{e}", 500)
except_Exception(body, message) ==
    IF body.raised
    THEN Returned(error_result(<<message, body.exception>>, 500), body.db)
    ELSE body

get_by_id_try(d, t, record_id, fault) ==
    except_Exception(
        IF fault = "select" THEN Raised("OperationalError", d)
        ELSE Returned(get_by_id(d, t, record_id), d),
        "Error fetching record: ")

get_all_try(d, t, fault) ==
    except_Exception(
        IF fault = "select" THEN Raised("OperationalError", d)
        ELSE Returned(get_all(d, t), d),
        "Error fetching all records: ")

create_try(d, t, model, fault) ==
    except_Exception(
        IF fault \in {"write", "commit"} THEN Raised("OperationalError", d)
        ELSE Returned(create(d, t, model).result, create(d, t, model).db),
        "Error creating record: ")

update_try(d, t, record_id, model, fault) ==
    except_Exception(
        LET check_result == get_by_id_try(d, t, record_id, fault).result
        IN IF ~check_result.success THEN Returned(check_result, d)
           ELSE IF fault \in {"write", "commit"} THEN Raised("OperationalError", d)
           ELSE Returned(update(d, t, record_id, model).result,
                         update(d, t, record_id, model).db),
        "Error updating record: ")

\* delete with its statement and commit outside the try block.
delete_try_unguarded(d, t, record_id, fault) ==
    LET check_result == get_by_id_try(d, t, record_id, fault).result
    IN IF ~check_result.success THEN Returned(check_result, d)
       ELSE IF fault \in {"write", "commit"} THEN Raised("OperationalError", d)
       ELSE Returned(delete(d, t, record_id).result, delete(d, t, record_id).db)

delete_try(d, t, record_id, fault) ==
    except_Exception(
        LET check_result == get_by_id_try(d, t, record_id, fault).result
        IN IF ~check_result.success THEN Returned(check_result, d)
           ELSE IF fault \in {"write", "commit"} THEN Raised("OperationalError", d)
           ELSE Returned(delete(d, t, record_id).result, delete(d, t, record_id).db),
        "Error deleting record: ")

get_by_bcba_try(d, bcba_id, fault) ==
    except_Exception(
        IF fault = "select" THEN Raised("OperationalError", d)
        ELSE Returned(get_by_bcba(d, bcba_id), d),
        <<"Error fetching session notes for BCBA ", bcba_id, ": ">>)

get_by_bcba_with_details_try(d, bcba_id, fault) ==
    except_Exception(
        IF fault = "select" THEN Raised("OperationalError", d)
        ELSE Returned(get_by_bcba_with_details(d, bcba_id), d),
        <<"Error fetching session notes with details for BCBA ", bcba_id, ": ">>)

get_by_id_with_details_try(d, note_id, fault) ==
    except_Exception(
        IF fault = "select" THEN Raised("OperationalError", d)
        ELSE Returned(get_by_id_with_details(d, note_id), d),
        <<"Error fetching session note with details for ID ", note_id, ": ">>)

\* The records written here: each fixture's, and two session notes.
FaultModels(t) ==
    CASE t = "bcbas" -> {sample_bcba}
      [] t = "patients" -> {sample_patient}
      [] t = "clinics" -> {sample_clinic}
      [] t = "session_notes" ->
            { [id |-> None, bcba |-> 1, patient |-> 1, clinic |-> c,
               apt_date |-> DateTime(10, Some("UTC")), duration |-> Some(60),
               notes |-> Some("x")] : c \in {None, Some(1)} }

\* What a call leaves in `last`: its arguments, the fault it ran under and
\* how it ended.
Ended(op, args, fault, o) ==
    [op |-> op, args |-> args, fault |-> fault,
     raised |-> o.raised, result |-> o.result]

TryGetById(t, record_id, fault) ==
    /\ last = NoCall
    /\ LET o == get_by_id_try(db, t, record_id, fault)
       IN /\ last' = Ended("get_by_id", [table |-> t, record_id |-> record_id], fault, o)
          /\ db' = o.db
    /\ UNCHANGED <<issued, services, threads>>

TryGetAll(t, fault) ==
    /\ last = NoCall
    /\ LET o == get_all_try(db, t, fault)
       IN /\ last' = Ended("get_all", [table |-> t], fault, o)
          /\ db' = o.db
    /\ UNCHANGED <<issued, services, threads>>

TryCreate(t, model, fault) ==
    /\ last = NoCall
    /\ TotalIssued < MaxCreates
    /\ LET o == create_try(db, t, model, fault)
       IN /\ last' = Ended("create", [table |-> t, model |-> model], fault, o)
          /\ db' = o.db
          /\ issued' = IF ~o.raised /\ o.result.success
                        THEN [issued EXCEPT ![t] = Append(@, o.result.data)]
                        ELSE issued
    /\ UNCHANGED <<services, threads>>

TryUpdate(t, record_id, model, fault) ==
    /\ last = NoCall
    /\ LET o == update_try(db, t, record_id, model, fault)
       IN /\ last' = Ended("update", [table |-> t, record_id |-> record_id,
                                       model |-> model], fault, o)
          /\ db' = o.db
    /\ UNCHANGED <<issued, services, threads>>

TryDelete(t, record_id, fault) ==
    /\ last = NoCall
    /\ LET o == delete_try(db, t, record_id, fault)
       IN /\ last' = Ended("delete", [table |-> t, record_id |-> record_id], fault, o)
          /\ db' = o.db
    /\ UNCHANGED <<issued, services, threads>>

TryGetByBcba(bcba_id, fault) ==
    /\ last = NoCall
    /\ LET o == get_by_bcba_try(db, bcba_id, fault)
       IN /\ last' = Ended("get_by_bcba", [bcba_id |-> bcba_id], fault, o)
          /\ db' = o.db
    /\ UNCHANGED <<issued, services, threads>>

TryGetByBcbaWithDetails(bcba_id, fault) ==
    /\ last = NoCall
    /\ LET o == get_by_bcba_with_details_try(db, bcba_id, fault)
       IN /\ last' = Ended("get_by_bcba_with_details", [bcba_id |-> bcba_id], fault, o)
          /\ db' = o.db
    /\ UNCHANGED <<issued, services, threads>>

TryGetByIdWithDetails(note_id, fault) ==
    /\ last = NoCall
    /\ LET o == get_by_id_with_details_try(db, note_id, fault)
       IN /\ last' = Ended("get_by_id_with_details", [note_id |-> note_id], fault, o)
          /\ db' = o.db
    /\ UNCHANGED <<issued, services, threads>>

NextFault ==
    \/ \E t \in Tables, record_id \in Ids, fault \in Faults :
          TryGetById(t, record_id, fault)
    \/ \E t \in Tables, fault \in Faults : TryGetAll(t, fault)
    \/ \E t \in Tables, fault \in Faults : \E model \in FaultModels(t) :
          TryCreate(t, model, fault)
    \/ \E t \in Tables, record_id \in Ids, fault \in Faults :
          \E model \in FaultModels(t) : TryUpdate(t, record_id, model, fault)
    \/ \E t \in Tables, record_id \in Ids, fault \in Faults :
          TryDelete(t, record_id, fault)
    \/ \E bcba_id \in Ids, fault \in Faults : TryGetByBcba(bcba_id, fault)
    \/ \E bcba_id \in Ids, fault \in Faults :
          TryGetByBcbaWithDetails(bcba_id, fault)
    \/ \E note_id \in Ids, fault \in Faults :
          TryGetByIdWithDetails(note_id, fault)
    \/ Return

FaultSpec == Init /\ [][NextFault]_vars

\* create_with_validation under a storage fault: the fault strikes the
\* lookup of the table `at`, or the insert.  create_with_validation has no
\* try block of its own; get_by_id and create turn their faults into Results.
create_with_validation_try(d, bcba, patient_id, notes, clinic_id, apt_date, duration, now, fault, at) ==
    LET lookup(t, record_id) ==
            get_by_id_try(d, t, record_id, IF at = t THEN fault ELSE "none").result
        bcba_result == lookup("bcbas", bcba)
        patient_result == lookup("patients", patient_id)
        clinic_result == lookup("clinics", clinic_id[1])
        session_note == [id |-> None,
                         bcba |-> bcba,
                         patient |-> patient_id,
                         clinic |-> clinic_id,
                         apt_date |-> IF apt_date # None THEN apt_date[1]
                                      ELSE DateTime(now, Some("UTC")),
                         duration |-> duration,
                         notes |-> notes]
    IN IF ~bcba_result.success
       THEN Returned(error_result(<<"BCBA with ID ", bcba, " does not exist">>, 400), d)
       ELSE IF ~patient_result.success
       THEN Returned(error_result(<<"Patient with ID ", patient_id, " does not exist">>, 400), d)
       ELSE IF clinic_id # None /\ ~clinic_result.success
       THEN Returned(error_result(<<"Clinic with ID ", clinic_id[1], " does not exist">>, 400), d)
       ELSE create_try(d, "session_notes", session_note, fault)

TryCreateWithValidation(request, now, fault, at) ==
    /\ last = NoCall
    /\ LET o == create_with_validation_try(db, request.bcba, request.patient_id,
                    request.notes, request.clinic_id, request.apt_date,
                    request.duration, now, fault, at)
       IN /\ ~o.raised /\ o.result.success => TotalIssued < MaxCreates
          /\ last' = Ended("create_with_validation", request, fault, o) @@ [at |-> at]
          /\ db' = o.db
          /\ issued' = IF ~o.raised /\ o.result.success
                        THEN [issued EXCEPT !["session_notes"] = Append(@, o.result.data)]
                        ELSE issued
    /\ UNCHANGED <<services, threads>>

\* Validated creation under faults, among deletes of the rows it refers to.
NextValidationFault ==
    \/ \E request \in CreateRequests, now \in Clock, fault \in Faults :
          \E at \in {"bcbas", "patients", "clinics"} :
              TryCreateWithValidation(request, now, fault, at)
    \/ \E t \in {"bcbas", "patients", "clinics"}, record_id \in Ids, fault \in Faults :
          TryDelete(t, record_id, fault)
    \/ Return

ValidationFaultSpec == Init /\ [][NextValidationFault]_vars

----------------------------------------------------------------------------
(* note_taker_service.py, services/base_service.py and hugging_face.py *)

\* str.lower() on the model types used here.
lower(str) ==
    CASE str = "OpenAI" -> "openai"
      [] OTHER -> str

\* NoteGenerationRequest(**data): a key left out of data is None, a key given
\* as null is Some(None).  observations is required and a str; the other
\* fields are Optional and take their default when left out.
NoteGenerationRequest(data) ==
    [observations |-> data.observations[1][1],
     model_type |-> IF data.model_type = None THEN Some("openai")
                    ELSE data.model_type[1],
     model_id |-> Some("gpt-4o-2024-05-13"),
     api_key |-> None,
     context |-> IF data.context = None THEN None ELSE data.context[1]]

\* validate returns a Result on every path: a ValidationError as a Failure
\* with status 400.
validate(data) ==
    IF data.observations = None \/ data.observations[1] = None
    THEN error_result(<<"Validation error: ", "observations">>, 400)
    ELSE success_result(NoteGenerationRequest(data))

\* HuggingFaceLLM.__init__: the model type in lower case selects the
\* backend; building the client or the pipeline can fail.
HuggingFaceLLM(model_type, backend) ==
    IF model_type = None THEN [raised |-> TRUE, exception |-> "AttributeError"]
    ELSE IF lower(model_type[1]) \notin {"openai", "huggingface"}
    THEN [raised |-> TRUE, exception |-> "Unsupported model type"]
    ELSE IF backend.construct = "raise"
    THEN [raised |-> TRUE, exception |-> "backend unavailable"]
    ELSE [raised |-> FALSE, exception |-> None, model_type |-> lower(model_type[1])]

\* execute with a second attempt after a failed generation.
execute_retrying(validated_data, backend) ==
    LET llm == HuggingFaceLLM(validated_data.model_type, backend)
        failed(e, calls) ==
            [result |-> error_result(<<"Note generation failed: ", e>>, 500),
             calls |-> calls]
    IN IF llm.raised THEN failed(llm.exception, <<"HuggingFaceLLM">>)
       ELSE IF backend.generate = "raise"
       THEN failed(<<"Error calling ", llm.model_type, " model: ">>,
                   <<"HuggingFaceLLM", "generate", "generate">>)
       ELSE IF backend.generate = "none"
       THEN failed("generated_note", <<"HuggingFaceLLM", "generate">>)
       ELSE [result |-> success_result(
                 [generated_note |-> "note",
                  model_used |-> <<validated_data.model_type[1], ":",
                                   validated_data.model_id[1]>>,
                  template_used |-> TRUE]),
             calls |-> <<"HuggingFaceLLM", "generate">>]

\* execute: the backend is built, asked once, and its text wrapped in a
\* NoteGenerationResponse; every exception becomes a Failure with status 500.
\* backend says how the model backend behaves: whether it can be built, and
\* whether the generation returns text, returns no text, or raises.
execute(validated_data, backend) ==
    LET llm == HuggingFaceLLM(validated_data.model_type, backend)
        failed(e, calls) ==
            [result |-> error_result(<<"Note generation failed: ", e>>, 500),
             calls |-> calls]
    IN IF llm.raised THEN failed(llm.exception, <<"HuggingFaceLLM">>)
       ELSE IF backend.generate = "raise"
       THEN failed(<<"Error calling ", llm.model_type, " model: ">>,
                   <<"HuggingFaceLLM", "generate">>)
       ELSE IF backend.generate = "none"
       THEN failed("generated_note", <<"HuggingFaceLLM", "generate">>)
       ELSE [result |-> success_result(
                 [generated_note |-> "note",
                  model_used |-> <<validated_data.model_type[1], ":",
                                   validated_data.model_id[1]>>,
                  template_used |-> TRUE]),
             calls |-> <<"HuggingFaceLLM", "generate">>]

\* Service.process_request; calls lists what was run.  data that is no
\* mapping makes NoteGenerationRequest(**data) raise a TypeError, which
\* validate returns as a Failure with status 500.  NoteTaker's validate and
\* execute catch every Exception themselves, so the except clause of
\* process_request is never entered.
process_request(data, backend) ==
    IF data = None
    THEN [result |-> error_result(<<"Unexpected validation error: ", "TypeError">>, 500),
          calls |-> <<"validate">>]
    ELSE LET result == validate(data)
             executed == execute(result.data, backend)
         IN IF ~result.success
            THEN [result |-> result, calls |-> <<"validate">>]
            ELSE [result |-> executed.result,
                  calls |-> <<"validate", "execute">> \o executed.calls]

\* The request data: observations left out, null or given; the model type
\* left out, null, supported (in either case) or not; a context or none.
RequestData ==
    { [observations |-> o, model_type |-> m, context |-> c] :
      o \in {None, Some(None), Some(Some("obs"))},
      m \in {None, Some(None), Some(Some("openai")), Some(Some("OpenAI")),
             Some(Some("huggingface")), Some(Some("llama"))},
      c \in {None, Some(Some("context"))} }

Backends ==
    [construct : {"ok", "raise"}, generate : {"text", "none", "raise"}]

InitNoteTaker ==
    /\ _instances = <<>>
    /\ objects = <<>>
    /\ db = [t \in Tables |-> <<>>]
    /\ issued = [t \in Tables |-> <<>>]
    /\ last = NoCall
    /\ threads = NoThreads

ProcessRequest(data, backend) ==
    /\ last = NoCall
    /\ LET r == process_request(data, backend)
       IN last' = [op |-> "process_request", data |-> data, backend |-> backend,
                   result |-> r.result, calls |-> r.calls]
    /\ UNCHANGED <<db, issued, services, threads>>

NextNoteTaker ==
    \/ \E data \in RequestData \cup {None}, backend \in Backends :
          ProcessRequest(data, backend)
    \/ Return

NoteTakerSpec == InitNoteTaker /\ [][NextNoteTaker]_vars

----------------------------------------------------------------------------
(* Calls of several callers at once *)

\* Every get_by_id opens its own connection (with self.engine.connect()) and
\* every write its own transaction (with self.engine.begin()); nothing holds
\* the database between them, so the statement of another caller of the same
\* SQLite file can run between any two statements of a call.  A thread is at
\* the statement it runs next: pc names it.

\* A call that has been entered: op and args, the statement it runs next,
\* and, once it has returned, its Result, the rowcount of its write
\* statement and the referenced tables that had no such row when it inserted.
Entered(op, args, pc) ==
    [pc |-> pc, op |-> op, args |-> args, result |-> None, rowcount |-> None,
     missing |-> {}]

Returns(self, result) == [self EXCEPT !.pc = "done", !.result = result]

\* delete(self.table).where(self.table.c.id == record_id), executed.
delete_stmt(d, t, record_id) ==
    [db |-> [d EXCEPT ![t] = SelectSeq(@, LAMBDA r : r.id # record_id)],
     rowcount |-> Cardinality({i \in DOMAIN d[t] : d[t][i].id = record_id})]

\* update(self.table).where(self.table.c.id == record_id).values(**data), executed.
update_stmt(d, t, record_id, data) ==
    LET write(row) == [f \in DOMAIN row |->
                          IF f \in DOMAIN data THEN bind_param(t, f, data[f])
                          ELSE row[f]]
    IN [db |-> [d EXCEPT ![t] = [i \in DOMAIN @ |->
                                    IF @[i].id = record_id THEN write(@[i]) ELSE @[i]]],
        rowcount |-> Cardinality({i \in DOMAIN d[t] : d[t][i].id = record_id})]

\* The next statement of BaseSQLiteRepository.delete.
delete_step(d, self) ==
    IF self.pc = "check"
    THEN LET check_result == get_by_id(d, self.args.table, self.args.record_id)
         IN IF ~check_result.success
            THEN [db |-> d, thread |-> Returns(self, check_result)]
            ELSE [db |-> d, thread |-> [self EXCEPT !.pc = "write"]]
    ELSE LET executed == delete_stmt(d, self.args.table, self.args.record_id)
         IN [db |-> executed.db,
             thread |-> [Returns(self, success_result(None))
                            EXCEPT !.rowcount = Some(executed.rowcount)]]

\* The next statement of BaseSQLiteRepository.update.
update_step(d, self) ==
    IF self.pc = "check"
    THEN LET check_result == get_by_id(d, self.args.table, self.args.record_id)
         IN IF ~check_result.success
            THEN [db |-> d, thread |-> Returns(self, check_result)]
            ELSE [db |-> d, thread |-> [self EXCEPT !.pc = "write"]]
    ELSE LET data == _model_to_dict(self.args.table, self.args.model)
             executed == update_stmt(d, self.args.table, self.args.record_id, data)
         IN [db |-> executed.db,
             thread |-> [Returns(self, success_result(None))
                            EXCEPT !.rowcount = Some(executed.rowcount)]]

\* The referenced tables that hold no row of the id the arguments name.
Unreferenced(d, args) ==
    {t \in {"bcbas", "patients", "clinics"} :
        CASE t = "bcbas" -> select_by_id(d[t], args.bcba) = <<>>
          [] t = "patients" -> select_by_id(d[t], args.patient_id) = <<>>
          [] t = "clinics" -> /\ args.clinic_id # None
                              /\ select_by_id(d[t], args.clinic_id[1]) = <<>>}

\* create_with_validation whose insert runs only while the rows it looked up
\* are still there.
create_with_validation_step_atomic(d, self, now) ==
    LET args == self.args
        session_note == [id |-> None, bcba |-> args.bcba, patient |-> args.patient_id,
                         clinic |-> args.clinic_id,
                         apt_date |-> IF args.apt_date # None THEN args.apt_date[1]
                                      ELSE DateTime(now, Some("UTC")),
                         duration |-> args.duration, notes |-> args.notes]
        created == create(d, "session_notes", session_note)
        after_patient == IF args.clinic_id # None THEN "clinic" ELSE "create"
    IN CASE self.pc = "bcba" ->
              IF ~get_by_id(d, "bcbas", args.bcba).success
              THEN [db |-> d,
                    thread |-> Returns(self, error_result(
                        <<"BCBA with ID ", args.bcba, " does not exist">>, 400))]
              ELSE [db |-> d, thread |-> [self EXCEPT !.pc = "patient"]]
         [] self.pc = "patient" ->
              IF ~get_by_id(d, "patients", args.patient_id).success
              THEN [db |-> d,
                    thread |-> Returns(self, error_result(
                        <<"Patient with ID ", args.patient_id, " does not exist">>, 400))]
              ELSE [db |-> d, thread |-> [self EXCEPT !.pc = after_patient]]
         [] self.pc = "clinic" ->
              IF ~get_by_id(d, "clinics", args.clinic_id[1]).success
              THEN [db |-> d,
                    thread |-> Returns(self, error_result(
                        <<"Clinic with ID ", args.clinic_id[1], " does not exist">>, 400))]
              ELSE [db |-> d, thread |-> [self EXCEPT !.pc = "create"]]
         [] self.pc = "create" ->
              IF Unreferenced(d, args) # {}
              THEN [db |-> d,
                    thread |-> [Returns(self, error_result(
                                    <<"Error creating record: ", "FOREIGN KEY constraint failed">>, 500))
                                   EXCEPT !.missing = Unreferenced(d, args)]]
              ELSE [db |-> created.db, thread |-> Returns(self, created.result)]

\* The next statement of SessionNoteService.create_with_validation: the
\* lookup of the BCBA, of the patient, of the clinic when one is given, then
\* the insert of self.create.
create_with_validation_step(d, self, now) ==
    LET args == self.args
        session_note == [id |-> None, bcba |-> args.bcba, patient |-> args.patient_id,
                         clinic |-> args.clinic_id,
                         apt_date |-> IF args.apt_date # None THEN args.apt_date[1]
                                      ELSE DateTime(now, Some("UTC")),
                         duration |-> args.duration, notes |-> args.notes]
        created == create(d, "session_notes", session_note)
        after_patient == IF args.clinic_id # None THEN "clinic" ELSE "create"
    IN CASE self.pc = "bcba" ->
              IF ~get_by_id(d, "bcbas", args.bcba).success
              THEN [db |-> d,
                    thread |-> Returns(self, error_result(
                        <<"BCBA with ID ", args.bcba, " does not exist">>, 400))]
              ELSE [db |-> d, thread |-> [self EXCEPT !.pc = "patient"]]
         [] self.pc = "patient" ->
              IF ~get_by_id(d, "patients", args.patient_id).success
              THEN [db |-> d,
                    thread |-> Returns(self, error_result(
                        <<"Patient with ID ", args.patient_id, " does not exist">>, 400))]
              ELSE [db |-> d, thread |-> [self EXCEPT !.pc = after_patient]]
         [] self.pc = "clinic" ->
              IF ~get_by_id(d, "clinics", args.clinic_id[1]).success
              THEN [db |-> d,
                    thread |-> Returns(self, error_result(
                        <<"Clinic with ID ", args.clinic_id[1], " does not exist">>, 400))]
              ELSE [db |-> d, thread |-> [self EXCEPT !.pc = "create"]]
         [] self.pc = "create" ->
              [db |-> created.db,
               thread |-> [Returns(self, created.result)
                              EXCEPT !.missing = Unreferenced(d, args)]]

\* The session-note arguments the concurrent callers use.
ThreadRequests ==
    [bcba : {1}, patient_id : {1}, clinic_id : {None, Some(1)}, notes : {Some("x")},
     apt_date : {None}, duration : {None}]

\* The calls in progress that will insert a row.
Inserting == {c \in Threads : threads[c].pc \in {"bcba", "patient", "clinic", "create"}}

EnterDelete(c, t, record_id) ==
    /\ threads[c] = Idle
    /\ threads' = [threads EXCEPT ![c] =
                      Entered("delete", [table |-> t, record_id |-> record_id], "check")]
    /\ UNCHANGED <<db, issued, last, services>>

EnterUpdate(c, t, record_id, model) ==
    /\ threads[c] = Idle
    /\ threads' = [threads EXCEPT ![c] =
                      Entered("update", [table |-> t, record_id |-> record_id,
                                         model |-> model], "check")]
    /\ UNCHANGED <<db, issued, last, services>>

EnterCreateWithValidation(c, args) ==
    /\ threads[c] = Idle
    /\ TotalIssued + Cardinality(Inserting) < MaxCreates
    /\ threads' = [threads EXCEPT ![c] = Entered("create_with_validation", args, "bcba")]
    /\ UNCHANGED <<db, issued, last, services>>

DeleteStep(c) ==
    /\ threads[c].pc \in {"check", "write"}
    /\ threads[c].op = "delete"
    /\ LET r == delete_step(db, threads[c])
       IN /\ db' = r.db
          /\ threads' = [threads EXCEPT ![c] = r.thread]
    /\ UNCHANGED <<issued, last, services>>

UpdateStep(c) ==
    /\ threads[c].pc \in {"check", "write"}
    /\ threads[c].op = "update"
    /\ LET r == update_step(db, threads[c])
       IN /\ db' = r.db
          /\ threads' = [threads EXCEPT ![c] = r.thread]
    /\ UNCHANGED <<issued, last, services>>

CreateWithValidationStep(c, now) ==
    /\ threads[c].pc \in {"bcba", "patient", "clinic", "create"}
    /\ LET r == create_with_validation_step(db, threads[c], now)
       IN /\ db' = r.db
          /\ threads' = [threads EXCEPT ![c] = r.thread]
          /\ issued' = IF r.thread.pc = "done" /\ r.thread.result.success
                       THEN [issued EXCEPT !["session_notes"] =
                                Append(@, r.thread.result.data)]
                       ELSE issued
    /\ UNCHANGED <<last, services>>

\* The caller takes the Result of its call.
ThreadReturn(c) ==
    /\ threads[c].pc = "done"
    /\ threads' = [threads EXCEPT ![c] = Idle]
    /\ UNCHANGED <<db, issued, last, services>>

NextConcurrent ==
    \/ \E c \in Threads, t \in Tables, record_id \in {1} : EnterDelete(c, t, record_id)
    \/ \E c \in Threads, record_id \in {1} :
          \E model \in UpdateModels("session_notes") :
              EnterUpdate(c, "session_notes", record_id, model)
    \/ \E c \in Threads, args \in ThreadRequests : EnterCreateWithValidation(c, args)
    \/ \E c \in Threads : DeleteStep(c)
    \/ \E c \in Threads : UpdateStep(c)
    \/ \E c \in Threads, now \in Clock : CreateWithValidationStep(c, now)
    \/ \E c \in Threads : ThreadReturn(c)

ConcurrentSpec == Init /\ [][NextConcurrent]_vars

----------------------------------------------------------------------------
(* The constructions of utils/result.py *)

\* The payloads, messages and status codes Results are built with; None
\* stands for an argument left out.
Payloads == {None, <<1>>, <<1, 2>>}

Messages == {None, <<"boom">>, <<"Record with ID ", 1, " not found">>}

StatusCodes == {None} \cup {Some(c) : c \in {0, 200, 400, 404, 500}}

InitResult ==
    /\ _instances = <<>>
    /\ objects = <<>>
    /\ db = [t \in Tables |-> <<>>]
    /\ issued = [t \in Tables |-> <<>>]
    /\ last = NoCall
    /\ threads = NoThreads

NewResult(success, data, error, status_code) ==
    /\ last = NoCall
    /\ LET self == Result(success, data, error, status_code)
       IN last' = [op |-> "Result",
                   args |-> [success |-> success, data |-> data,
                             error |-> error, status_code |-> status_code],
                   result |-> self, dict |-> to_dict(self)]
    /\ UNCHANGED <<db, issued, services, threads>>

SuccessResult(data) ==
    /\ last = NoCall
    /\ LET self == success_result(data)
       IN last' = [op |-> "success_result", args |-> [data |-> data],
                   result |-> self, dict |-> to_dict(self)]
    /\ UNCHANGED <<db, issued, services, threads>>

ErrorResult(error, status_code) ==
    /\ last = NoCall
    /\ LET self == error_result(error, IF status_code = None
                                       THEN error_result_status_code
                                       ELSE status_code[1])
       IN last' = [op |-> "error_result",
                   args |-> [error |-> error, status_code |-> status_code],
                   result |-> self, dict |-> to_dict(self)]
    /\ UNCHANGED <<db, issued, services, threads>>

NextResult ==
    \/ \E success \in BOOLEAN, data \in Payloads, error \in Messages,
          status_code \in StatusCodes :
          NewResult(success, data, error, status_code)
    \/ \E data \in Payloads : SuccessResult(data)
    \/ \E error \in Messages \ {None}, status_code \in StatusCodes :
          ErrorResult(error, status_code)
    \/ Return

ResultSpec == InitResult /\ [][NextResult]_vars

----------------------------------------------------------------------------
(* The construction calls *)

\* A process that has constructed no service yet.
InitSingleton ==
    /\ _instances = <<>>
    /\ objects = <<>>
    /\ db = [t \in Tables |-> <<>>]
    /\ issued = [t \in Tables |-> <<>>]
    /\ last = NoCall
    /\ threads = NoThreads

\* BcbaService(), PatientService(), ClinicService() or SessionNoteService().
Call(cls) ==
    /\ last = NoCall
    /\ LET r == __call__(_instances, objects, cls)
       IN /\ _instances' = r.instances
          /\ objects' = r.objects
          /\ last' = [op |-> "__call__", cls |-> cls, result |-> r.result]
    /\ UNCHANGED <<db, issued, threads>>

NextSingleton ==
    \/ \E cls \in ServiceClasses : Call(cls)
    \/ Return

SingletonSpec == InitSingleton /\ [][NextSingleton]_vars

----------------------------------------------------------------------------
(* C11 *)

StoredIds(d, t) == {d[t][i].id : i \in DOMAIN d[t]}

SuccessfulCreate(l) ==
    /\ l.op \in {"create", "create_with_validation"}
    /\ l.result.success

CreatedIn(l) == IF l.op = "create" THEN l.table ELSE "session_notes"

C11_NoSharedId ==
    \A t \in Tables : \A i, j \in DOMAIN db[t] :
        db[t][i].id = db[t][j].id => i = j

\* A successful create returns an id no row of its table holds, and only a
\* delete takes a row's id out of a table: with no delete between them, the
\* first create's row is still there when the second one picks its id.
C11_Step ==
    /\ (last = NoCall /\ SuccessfulCreate(last')) =>
           /\ last'.result.data \notin StoredIds(db, CreatedIn(last'))
           /\ last'.result.data \in StoredIds(db', CreatedIn(last'))
    /\ (last' # NoCall /\ last'.op # "delete") =>
           \A t \in Tables : StoredIds(db, t) \subseteq StoredIds(db', t)

\* C11: in every reachable state no two rows of a table share an id, and two
\* successful creates on one table with no delete between them return
\* different ids, also for records equal in every other field.
C11_UniqueIds == [](C11_NoSharedId) /\ [][C11_Step]_vars

C11_Witness ==
    /\ last.op = "create"
    /\ last.result.success
    /\ \E i, j \in DOMAIN db[last.table] :
          /\ db[last.table][j].id = last.result.data
          /\ i # j
          /\ \A f \in Columns(last.table) \ {"id"} :
                db[last.table][i][f] = db[last.table][j][f]

----------------------------------------------------------------------------
(* C12 *)

IdColumn(d, t) == [i \in DOMAIN d[t] |-> d[t][i].id]

C12_Step ==
    /\ (last = NoCall /\ last'.op = "create") =>
           LET t == last'.table
               anonymous == [last'.model EXCEPT !.id = None]
           IN /\ db' = create(db, t, anonymous).db
              /\ last'.result = create(db, t, anonymous).result
              /\ IdColumn(db', t) = Append(IdColumn(db, t), last'.result.data)
              /\ last'.result.data \notin StoredIds(db, t)
    /\ (last = NoCall /\ last'.op = "update") =>
           /\ \A t \in Tables : IdColumn(db', t) = IdColumn(db, t)
           /\ last'.result.success =>
                  RowExists(db', last'.table, last'.record_id)

\* C12: a model's id is never written to storage: create stores the record
\* under the id the storage layer assigns, whatever id the caller's record
\* carries, and update(id, record) leaves every stored id as it was, also
\* when record.id differs from id.
C12_IdNeverWritten == [][C12_Step]_vars

C12_Witness ==
    /\ last.op = "create"
    /\ last.result.success
    /\ last.model.id # None
    /\ last.model.id[1] # last.result.data
    /\ RowExists(db, last.table, last.result.data)
    /\ ~RowExists(db, last.table, last.model.id[1])


----------------------------------------------------------------------------
(* C13 *)

\* The record a row is read back as.
RecordOf(t, row) ==
    [f \in Columns(t) |->
        IF f = "id" THEN Some(row.id)
        ELSE IF f = "apt_date" THEN DateTime(row[f], None)
        ELSE row[f]]

C13_Listing ==
    last.op = "get_all" =>
        /\ last.result.success
        /\ last.result.status_code = 200
        /\ last.result.error = None
        /\ Len(last.result.data) = Len(db[last.table])
        /\ \A i \in DOMAIN db[last.table] :
              last.result.data[i] = RecordOf(last.table, db[last.table][i])

\* The rows of a table stand in the order of their insertion: a create puts
\* its row after all others, a delete takes one row out and keeps the rest in
\* order, nothing else moves a row.
C13_Order ==
    \A t \in Tables :
        CASE last = NoCall /\ SuccessfulCreate(last') /\ CreatedIn(last') = t ->
                /\ Len(db'[t]) = Len(db[t]) + 1
                /\ SubSeq(db'[t], 1, Len(db[t])) = db[t]
                /\ db'[t][Len(db'[t])].id = last'.result.data
          [] last = NoCall /\ last'.op = "delete" /\ last'.table = t ->
                db'[t] = SelectSeq(db[t], LAMBDA r : r.id # last'.record_id)
          [] OTHER -> IdColumn(db', t) = IdColumn(db, t)

\* C13: get_all() returns Success with exactly the records now in the table,
\* each once, in insertion order, and Success([]) on an empty table; with no
\* storage fault it never fails.
C13_GetAll == [](C13_Listing) /\ [][C13_Order]_vars

C13_Witness ==
    /\ last.op = "get_all"
    /\ Len(last.result.data) = 2
    /\ last.result.data[1].id = Some(2)
    /\ last.result.data[2].id = Some(3)

C13_WitnessEmpty ==
    /\ last.op = "get_all"
    /\ last.result = Success(<<>>)


----------------------------------------------------------------------------
(* C14 *)

NotesOf(d, bcba_id) ==
    {i \in DOMAIN d["session_notes"] : d["session_notes"][i].bcba = bcba_id}

\* C14: get_by_bcba(b) returns Success with exactly the stored session notes
\* whose bcba is b: every such note once, and no note of another BCBA.
C14_GetByBcba ==
    last.op = "get_by_bcba" =>
        LET data == last.result.data
            notes == db["session_notes"]
        IN /\ last.result.success
           /\ last.result.status_code = 200
           /\ Len(data) = Cardinality(NotesOf(db, last.bcba_id))
           /\ \A i \in NotesOf(db, last.bcba_id) :
                 \E k \in DOMAIN data : data[k] = RecordOf("session_notes", notes[i])
           /\ \A k \in DOMAIN data :
                 /\ data[k].bcba = last.bcba_id
                 /\ \E i \in DOMAIN notes :
                       data[k] = RecordOf("session_notes", notes[i])

C14_Witness ==
    /\ last.op = "get_by_bcba"
    /\ Len(last.result.data) = 1
    /\ Len(db["session_notes"]) = 2
    /\ \E i \in DOMAIN db["session_notes"] :
          db["session_notes"][i].bcba # last.bcba_id


----------------------------------------------------------------------------
(* C15 *)

\* C15: for a BCBA with no session note, a BCBA id that names no BCBA
\* included, get_by_bcba and get_by_bcba_with_details return Success with the
\* empty list, never a Failure.
C15_NoNotesIsSuccess ==
    (/\ last.op \in {"get_by_bcba", "get_by_bcba_with_details"}
     /\ NotesOf(db, last.bcba_id) = {})
        => last.result = Success(<<>>)

C15_Witness ==
    /\ last.op = "get_by_bcba_with_details"
    /\ ~RowExists(db, "bcbas", last.bcba_id)
    /\ NotesOf(db, last.bcba_id) = {}
    /\ db["session_notes"] # <<>>
    /\ last.result = Success(<<>>)

C15_WitnessPlain ==
    /\ last.op = "get_by_bcba"
    /\ ~RowExists(db, "bcbas", last.bcba_id)
    /\ db["session_notes"] # <<>>
    /\ last.result = Success(<<>>)


----------------------------------------------------------------------------
(* C16 *)

\* What the claim says of one entry of a detail read, given the note's row.
DetailsOf(d, note, entry) ==
    /\ entry.id = note.id
    /\ note.clinic = None => entry.clinic_name = "No Clinic"
    /\ (note.clinic # None /\ RowExists(d, "clinics", note.clinic[1])) =>
           entry.clinic_name = RowOf(d, "clinics", note.clinic[1]).name
    /\ entry.patient_name = <<RowOf(d, "patients", note.patient).first_name, " ",
                               RowOf(d, "patients", note.patient).last_name>>
    /\ entry.bcba_name = RowOf(d, "bcbas", note.bcba).name

Joinable(d, note) ==
    /\ RowExists(d, "patients", note.patient)
    /\ RowExists(d, "bcbas", note.bcba)

\* C16: in get_by_id_with_details and get_by_bcba_with_details a note whose
\* clinic is null is still returned, with clinic_name "No Clinic"; a note
\* whose clinic names an existing clinic reports that clinic's name; and
\* patient_name and bcba_name are those of the referenced patient and BCBA.
C16_Details ==
    LET notes == db["session_notes"]
    IN /\ last.op = "get_by_id_with_details" =>
            /\ \A i \in DOMAIN notes :
                  (/\ notes[i].id = last.note_id
                   /\ notes[i].clinic = None
                   /\ Joinable(db, notes[i])) => last.result.success
            /\ last.result.success =>
                  DetailsOf(db, RowOf(db, "session_notes", last.note_id),
                            last.result.data)
       /\ last.op = "get_by_bcba_with_details" =>
            /\ \A i \in NotesOf(db, last.bcba_id) :
                  (notes[i].clinic = None /\ Joinable(db, notes[i])) =>
                      \E k \in DOMAIN last.result.data :
                          last.result.data[k].id = notes[i].id
            /\ \A k \in DOMAIN last.result.data :
                  DetailsOf(db, RowOf(db, "session_notes", last.result.data[k].id),
                            last.result.data[k])


----------------------------------------------------------------------------
(* C17 *)

Built == last.op \in {"Result", "success_result", "error_result"}

\* C17: to_dict() of a Result holds success and status_code and exactly one
\* of data and error, data on success and error on failure, and a Result
\* never holds both a payload and an error message.
C17_ToDict ==
    Built =>
        /\ {"success", "status_code"} \subseteq DOMAIN last.dict
        /\ last.dict.success = last.result.success
        /\ last.dict.status_code = last.result.status_code
        /\ last.result.success =>
              /\ DOMAIN last.dict = {"success", "status_code", "data"}
              /\ last.dict.data = last.result.data
        /\ ~last.result.success =>
              /\ DOMAIN last.dict = {"success", "status_code", "error"}
              /\ last.dict.error = last.result.error
        /\ last.result.data = None \/ last.result.error = None

C17_Witness ==
    /\ last.op = "Result"
    /\ last.args.success
    /\ last.args.data = None
    /\ last.args.error # None
    /\ DOMAIN last.dict = {"success", "status_code", "data"}

----------------------------------------------------------------------------
(* C18 *)

\* C18: a Failure built with no status code, through error_result(message)
\* or through Result(success=False, ...), has status_code 500, and a Success
\* built with success_result has status_code 200.
C18_DefaultStatus ==
    /\ (last.op = "error_result" /\ last.args.status_code = None) =>
           last.result.status_code = 500
    /\ (/\ last.op = "Result"
        /\ ~last.args.success
        /\ last.args.status_code = None) => last.result.status_code = 500
    /\ last.op = "success_result" => last.result.status_code = 200


----------------------------------------------------------------------------
(* C19 *)

\* The fault a call ran under struck a step the call reached: its SELECT
\* (every operation but create starts with one), or the write or commit of a
\* create, or of an update or delete whose row exists.
FaultStruck(l, d) ==
    \/ l.fault = "select" /\ l.op # "create"
    \/ /\ l.fault \in {"write", "commit"}
       /\ \/ l.op = "create"
          \/ /\ l.op \in {"update", "delete"}
             /\ RowExists(d, l.args.table, l.args.record_id)

\* C19: none of get_by_id, get_all, create, update, delete, get_by_bcba,
\* get_by_bcba_with_details and get_by_id_with_details lets an exception
\* reach its caller: each returns a Result on every path, and a Failure with
\* status 500 when the storage layer fails at any step of the call.
C19_FaultsBecomeFailures ==
    last # NoCall =>
        /\ ~last.raised
        /\ last.result.success \in BOOLEAN
        /\ last.result.status_code \in {200, 404, 500}
        /\ FaultStruck(last, db) =>
              /\ ~last.result.success
              /\ last.result.status_code = 500
              /\ last.result.data = None
              /\ last.result.error # None
        /\ (~FaultStruck(last, db) /\ ~last.result.success) =>
              last.result.status_code = 404

C19_Witness ==
    /\ last # NoCall
    /\ last.op = "delete"
    /\ last.fault = "commit"
    /\ RowExists(db, last.args.table, last.args.record_id)
    /\ ~last.raised
    /\ last.result.status_code = 500


----------------------------------------------------------------------------
(* C20 *)

ObjectsOf(cls) == {i \in DOMAIN objects : objects[i].class = cls}

C20_OneInstance ==
    /\ \A cls \in ServiceClasses :
          /\ Cardinality(ObjectsOf(cls)) <= 1
          /\ cls \in DOMAIN _instances => ObjectsOf(cls) = {_instances[cls]}
          /\ cls \notin DOMAIN _instances => ObjectsOf(cls) = {}
    /\ \A c1, c2 \in DOMAIN _instances :
          c1 # c2 => _instances[c1] # _instances[c2]
    /\ last.op = "__call__" => last.result = _instances[last.cls]

C20_Step ==
    /\ \A cls \in DOMAIN _instances :
          cls \in DOMAIN _instances' /\ _instances'[cls] = _instances[cls]
    /\ (last = NoCall /\ last'.op = "__call__") =>
          IF last'.cls \in DOMAIN _instances
          THEN /\ objects' = objects
               /\ last'.result = _instances[last'.cls]
          ELSE /\ objects' = Append(objects, __init__(last'.cls))
               /\ last'.result = Len(objects')

\* C20: for each service class the first construction call constructs the
\* instance, with its repository, and every later call returns that same
\* instance and constructs nothing, so each class has one instance for the
\* life of the process; different classes have different instances.
C20_Singleton == [](C20_OneInstance) /\ [][C20_Step]_vars

C20_Witness ==
    /\ last.op = "__call__"
    /\ Len(objects) = 4
    /\ last.result < Len(objects)


----------------------------------------------------------------------------
(* C21 *)

Routes ==
    {"get_session_notes_by_bcba", "get_session_note_by_id", "add_session_note",
     "edit_session_note", "delete_session_note"}

\* C21: every HTTP response carries the Result envelope of the service call,
\* {success, status_code, data} on success and {success, status_code, error}
\* on failure, so that the client can read the success flag and the status
\* code of a failed operation.
C21_Envelope ==
    last.op \in Routes =>
        /\ {"success", "status_code"} \subseteq DOMAIN last.response.body
        /\ last.response.body = to_dict(last.result)


----------------------------------------------------------------------------
(* C22 *)

\* The request field a column of session_notes is edited through.
RequestField(f) ==
    CASE f = "patient" -> "patient_id"
      [] f = "clinic" -> "clinic_id"
      [] OTHER -> f

\* What the row holds for a value supplied in a request.
EditedTo(f, v) ==
    IF f \in {"bcba", "patient"} THEN v[1]
    ELSE IF f = "apt_date" THEN v[1].wall
    ELSE v

C22_Step ==
    (last = NoCall /\ last'.op = "edit_session_note") =>
        LET note_id == last'.args.note_id
            request == last'.args.request
            notes == db["session_notes"]
        IN IF RowExists(db, "session_notes", note_id)
           THEN /\ last'.result = Success(None)
                /\ \A t \in Tables \ {"session_notes"} : db'[t] = db[t]
                /\ Len(db'["session_notes"]) = Len(notes)
                /\ \A i \in DOMAIN notes :
                      IF notes[i].id = note_id
                      THEN /\ db'["session_notes"][i].id = note_id
                           /\ \A f \in Columns("session_notes") \ {"id"} :
                                 db'["session_notes"][i][f] =
                                    IF request[RequestField(f)] # None
                                    THEN EditedTo(f, request[RequestField(f)])
                                    ELSE notes[i][f]
                      ELSE db'["session_notes"][i] = notes[i]
           ELSE /\ last'.result = NotFound(note_id)
                /\ db' = db

\* C22: PUT /api/session-notes/{id} is a partial update: on an existing note
\* every field supplied in the request takes the supplied value, every field
\* left out keeps its stored value and the id is unchanged; on an id that
\* names no note the handler returns get_by_id's not-found failure and
\* writes nothing.
C22_PartialUpdate == [][C22_Step]_vars

\* An edit that supplies a zero duration and no notes text, over a note
\* with a notes text.
C22_Witness ==
    /\ last.op = "edit_session_note"
    /\ last.result.success
    /\ last.args.request.duration = Some(0)
    /\ last.args.request.notes = None
    /\ RowOf(db, "session_notes", last.args.note_id).duration = Some(0)
    /\ RowOf(db, "session_notes", last.args.note_id).notes = Some("x")


----------------------------------------------------------------------------
(* C23 *)

Count(calls, name) == Cardinality({i \in DOMAIN calls : calls[i] = name})

HasObservations(data) ==
    /\ data # None
    /\ data.observations # None
    /\ data.observations[1] # None

\* C23 as stated: execute runs only after validate succeeded; a request
\* without observations yields a Failure with status 400 and no backend is
\* built or called; a request that passes validation leads to exactly one
\* generation call; and an exception comes back as a Failure with status 500.
C23_ExactlyOneGeneration ==
    last.op = "process_request" =>
        /\ Count(last.calls, "execute") > 0 => HasObservations(last.data)
        /\ (last.data # None /\ ~HasObservations(last.data)) =>
              /\ ~last.result.success
              /\ last.result.status_code = 400
              /\ Count(last.calls, "HuggingFaceLLM") = 0
              /\ Count(last.calls, "generate") = 0
        /\ HasObservations(last.data) => Count(last.calls, "generate") = 1
        /\ last.result.status_code \in {200, 400, 500}

\* The backend of the request's model type is built.
BackendBuilt(data, backend) ==
    /\ backend.construct = "ok"
    /\ data.model_type \in {None, Some(Some("openai")), Some(Some("OpenAI")),
                             Some(Some("huggingface"))}

\* C23: amended, a request that passes validation leads to at most one
\* generation call: one when the backend of its model type is built, none
\* and a Failure with status 500 when the model type is null or unsupported
\* or the backend cannot be built.  The rest is as stated.
C23_AtMostOneGeneration ==
    last.op = "process_request" =>
        /\ Count(last.calls, "validate") = 1
        /\ Count(last.calls, "execute") > 0 => HasObservations(last.data)
        /\ (last.data # None /\ ~HasObservations(last.data)) =>
              /\ ~last.result.success
              /\ last.result.status_code = 400
              /\ last.calls = <<"validate">>
        /\ last.data = None =>
              /\ ~last.result.success
              /\ last.result.status_code = 500
              /\ last.calls = <<"validate">>
        /\ HasObservations(last.data) =>
              /\ Count(last.calls, "execute") = 1
              /\ IF BackendBuilt(last.data, last.backend)
                 THEN /\ Count(last.calls, "generate") = 1
                      /\ last.result.success <=> last.backend.generate = "text"
                 ELSE /\ Count(last.calls, "generate") = 0
                      /\ ~last.result.success
              /\ ~last.result.success => last.result.status_code = 500
        /\ last.result.status_code \in {200, 400, 500}

\* A generation that raises: one call, no second attempt, status 500.
C23_Witness ==
    /\ last.op = "process_request"
    /\ HasObservations(last.data)
    /\ BackendBuilt(last.data, last.backend)
    /\ last.backend.generate = "raise"
    /\ Count(last.calls, "generate") = 1
    /\ last.result.status_code = 500

----------------------------------------------------------------------------
(* C24 *)

\* The stored session note of id record_id carries the references of args.
StoredNote(d, record_id, args) ==
    \E i \in DOMAIN d["session_notes"] :
        LET note == d["session_notes"][i]
        IN /\ note.id = record_id
           /\ note.bcba = args.bcba
           /\ note.patient = args.patient_id
           /\ note.clinic = args.clinic_id

\* C24: when the BCBA, the patient or the clinic a create_with_validation
\* call has already looked up is deleted before the call's insert runs, the
\* insert still goes through: the call returns Success with the new id, and
\* the store then holds that session note with a reference that names no
\* existing row.
C24_Step ==
    \A c \in Threads :
        ( /\ threads[c].pc = "create"
          /\ threads'[c].pc = "done"
          /\ Unreferenced(db, threads[c].args) # {} )
        => /\ threads'[c].result.success
           /\ threads'[c].result.status_code = 200
           /\ StoredNote(db', threads'[c].result.data, threads[c].args)
           /\ Unreferenced(db', threads[c].args) = Unreferenced(db, threads[c].args)

C24_NotAtomic == [][C24_Step]_vars

\* A create_with_validation call has returned Success although the BCBA it
\* had looked up was gone when it inserted; the note it stored names that BCBA.
C24_Witness ==
    \E c \in Threads :
        /\ threads[c].pc = "done"
        /\ threads[c].op = "create_with_validation"
        /\ threads[c].result.success
        /\ "bcbas" \in threads[c].missing
        /\ StoredNote(db, threads[c].result.data, threads[c].args)
        /\ ~RowExists(db, "bcbas", threads[c].args.bcba)

----------------------------------------------------------------------------
(* C30 *)

\* C30: the existence check and the write of delete and of update act as one
\* step: a delete(id) or update(id, record) that has returned Success ran its
\* write statement on a row that existed, so of two delete(id) calls that
\* overlap only one returns Success, and an update(id, record) overlapping a
\* delete(id) returns Success only if the row was there when it wrote.
C30_CheckAndWriteAreOneStep ==
    \A c \in Threads :
        ( /\ threads[c].pc = "done"
          /\ threads[c].op \in {"delete", "update"}
          /\ threads[c].result.success )
        => threads[c].rowcount = Some(1)

----------------------------------------------------------------------------
(* C25 *)

\* The lookup of table t of a create_with_validation call was struck by a
\* storage fault: the call reached it and its SELECT failed.
LookupFault(l, d) ==
    /\ l.fault = "select"
    /\ \/ l.at = "bcbas"
       \/ l.at = "patients" /\ BcbaValid(d, l.args)
       \/ /\ l.at = "clinics"
          /\ BcbaValid(d, l.args) /\ PatientValid(d, l.args)
          /\ l.args.clinic_id # None

\* C25: create_with_validation returns the status-400 "does not exist"
\* failure for an id only when the referenced table holds no row of that id;
\* when the lookup itself fails with a storage fault, the call returns a
\* failure of status 500 and not the 400 non-existence.
C25_FaultIsNot400 ==
    last.op = "create_with_validation" =>
        /\ last.result = DoesNotExist("BCBA with ID ", last.args.bcba)
               => ~BcbaValid(db, last.args)
        /\ last.result = DoesNotExist("Patient with ID ", last.args.patient_id)
               => ~PatientValid(db, last.args)
        /\ ( /\ last.args.clinic_id # None
             /\ last.result = DoesNotExist("Clinic with ID ", last.args.clinic_id[1]) )
               => ~ClinicValid(db, last.args)
        /\ LookupFault(last, db)
               => /\ ~last.result.success
                  /\ last.result.status_code = 500

----------------------------------------------------------------------------
(* C26 *)

\* The session note the call in `last` wrote to, when it is a
\* SessionNoteService.update or a PUT /api/session-notes/{id}; None otherwise.
NoteWritten(l) ==
    IF l.op = "edit_session_note" THEN Some(l.args.note_id)
    ELSE IF l.op = "update"
    THEN (IF l.table = "session_notes" THEN Some(l.record_id) ELSE None)
    ELSE None

\* Every reference of the row names a row of the table it refers to.
References(d, row) ==
    /\ RowExists(d, "bcbas", row.bcba)
    /\ RowExists(d, "patients", row.patient)
    /\ row.clinic # None => RowExists(d, "clinics", row.clinic[1])

\* C26: updating a session note cannot introduce a dangling reference: after
\* a SessionNoteService.update or a PUT /api/session-notes/{id} that
\* returned Success, the bcba, the patient and the non-null clinic of the
\* note it wrote each name a row stored in the referenced table.
C26_NoDanglingReference ==
    ( /\ NoteWritten(last) # None
      /\ last.result.success )
    => References(db, RowOf(db, "session_notes", NoteWritten(last)[1]))

----------------------------------------------------------------------------
(* C29 *)

C29_Step ==
    \A t \in Tables : \A i \in DOMAIN db[t] :
        RowExists(db', t, db[t][i].id) =>
            \A f \in OptionalFields(t) \ {"id"} :
                db[t][i][f] # None => RowOf(db', t, db[t][i].id)[f] # None

\* C29: once an optional field of a stored record (a session note's clinic,
\* duration or notes, a patient's ICD or address, a clinic's address) holds a
\* non-null value, no update call and no PUT /api/session-notes/{id} request
\* makes it null again: across every step that keeps the record, the field
\* stays non-null.
C29_NeverNullAgain == [][C29_Step]_vars

\* An update of a session note with a record whose clinic, duration and
\* notes are None has returned Success, and the stored note still holds a
\* duration and a notes text.
C29_Witness ==
    /\ last.op = "update"
    /\ last.table = "session_notes"
    /\ last.result.success
    /\ last.model.duration = None
    /\ last.model.notes = None
    /\ RowOf(db, "session_notes", last.record_id).duration # None
    /\ RowOf(db, "session_notes", last.record_id).notes # None

----------------------------------------------------------------------------
(* C27 *)

\* C27: the detail-joined reads see exactly the notes the plain reads see,
\* also after referenced BCBAs, patients or clinics were deleted:
\* get_by_id_with_details(id) returns Success exactly when get_by_id(id)
\* does, that is when a note of that id is stored, and the 404 failure
\* otherwise, and get_by_bcba_with_details(b) returns one entry per note
\* get_by_bcba(b) returns, with the same ids in the same order.
C27_SameNotes ==
    /\ last.op = "get_by_id_with_details" =>
           /\ last.result.success = get_by_id(db, "session_notes", last.note_id).success
           /\ last.result.success = RowExists(db, "session_notes", last.note_id)
           /\ ~last.result.success => last.result.status_code = 404
    /\ last.op = "get_by_bcba_with_details" =>
           LET plain == get_by_bcba(db, last.bcba_id).data
               detailed == last.result.data
           IN /\ last.result.success
              /\ Len(detailed) = Len(plain)
              /\ \A i \in DOMAIN plain : detailed[i].id = plain[i].id[1]

----------------------------------------------------------------------------
(* C28 *)

\* The session notes that refer to the row record_id of table t.
Referring(d, t, record_id) ==
    {i \in DOMAIN d["session_notes"] :
        LET note == d["session_notes"][i]
        IN CASE t = "bcbas" -> note.bcba = record_id
             [] t = "patients" -> note.patient = record_id
             [] t = "clinics" -> note.clinic = Some(record_id)
             [] OTHER -> FALSE}

C28_Step ==
    (last = NoCall /\ last'.op = "delete") =>
        LET t == last'.table
            record_id == last'.record_id
        IN IF RowExists(db, t, record_id)
           THEN /\ last'.result = Success(None)
                /\ db'[t] = SelectSeq(db[t], LAMBDA r : r.id # record_id)
                /\ Len(db'[t]) = Len(db[t]) - 1
                /\ \A u \in Tables \ {t} : db'[u] = db[u]
           ELSE /\ last'.result = NotFound(record_id)
                /\ db' = db

\* C28: a successful delete(id) on one service removes exactly the row of
\* that id from that service's table and changes nothing else: the other
\* rows of the table and all rows of the other three tables are unchanged.
\* The delete of a BCBA, patient or clinic succeeds also when session notes
\* refer to it, and those notes stay stored with their references unchanged.
C28_DeleteFrame == [][C28_Step]_vars

\* A delete of a BCBA, patient or clinic has returned Success while a stored
\* session note refers to the deleted row.
C28_Witness ==
    /\ last.op = "delete"
    /\ last.table \in {"bcbas", "patients", "clinics"}
    /\ last.result.success
    /\ ~RowExists(db, last.table, last.record_id)
    /\ Referring(db, last.table, last.record_id) # {}
====
